---- MODULE Spec2Model ----
(***************************************************************************)
(* A model of the Cretonne meta language (lib/cretonne/meta/cretonne):     *)
(* setting groups and their byte/bit layout, the instruction format        *)
(* registry, the polymorphism check of instruction definitions, bound      *)
(* instructions, scalar type numbers, transformation patterns (xform.py)   *)
(* and the numbering done by TargetISA.finish().                           *)
(*                                                                         *)
(* Python objects are modelled by value.  A Setting is the pair <<g, i>>   *)
(* (the i-th setting appended to group g); a Predicate is <<"pred", k>>.   *)
(* A raised exception is recorded in lastOp.err; the fields assigned       *)
(* before the raise keep their new values, as in the Python code.          *)
(***************************************************************************)
EXTENDS Integers, Sequences, FiniteSets, TLC

VARIABLES
    sg_current,      \* SettingGroup._current
    grp,             \* the SettingGroup objects, by name
    pred_named,      \* the Predicate objects whose .name is set
    registry,        \* InstructionFormat._registry
    all_formats,     \* InstructionFormat.all_formats
    ig_current,      \* InstructionGroup._current
    ig_instructions, \* instructions of the InstructionGroup
    bound,           \* a BoundInstruction
    type_registry,   \* ValueType._registry (the names)
    all_scalars,     \* ValueType.all_scalars
    vectors,         \* the _vectors dicts of the scalar types
    xform,           \* the XForm constructed last
    xforms,          \* XFormGroup.xforms
    caller_vars,     \* defctx of the Var objects patterns are written with
    isa,             \* a TargetISA with its CPU modes and encodings
    lastOp           \* the last call: its name, error (if any) and result

vars == <<sg_current, grp, pred_named, registry, all_formats,
          ig_current, ig_instructions, bound, type_registry, all_scalars,
          vectors,
          xform, xforms, caller_vars, isa, lastOp>>

settingsVars == <<sg_current, grp, pred_named>>
formatVars == <<registry, all_formats>>
instVars == <<ig_current, ig_instructions>>
typeVars == <<type_registry, all_scalars, vectors>>
xformVars == <<xform, xforms, caller_vars>>
declVars == <<bound, typeVars, xformVars, isa>>

(***************************************************************************)
(* Bounds of the model.                                                    *)
(***************************************************************************)
MaxSettings == 2         \* settings created by NewSetting, over all groups
MaxGlobs == 1            \* Predicate objects in the dict passed to close()
MaxLayoutSettings == 9   \* settings of the group whose layout is examined
MaxFormats == 2          \* InstructionFormat objects registered
MaxOuts == 2             \* output operands of an instruction or a lookup

\* Python's None, for a number-valued attribute that is not set.
None == -1
NoGroup == "none"
NoErr == "ok"

Groups == {"g1", "g2"}
Preds == {<<"pred", 1>>, <<"pred", 2>>}
SettingKinds == {"bool", "num", "enum"}
\* layout() tells BoolSetting from the rest: one kind of each.
LayoutKinds == {"bool", "num"}

Op(name, err, ret) == [op |-> name, err |-> err, ret |-> ret]

(***************************************************************************)
(* Setting / SettingGroup                                                  *)
(***************************************************************************)
Absent == [exists |-> FALSE]

\* Setting.__init__: byte_offset is None; bit_offset is set by layout() alone.
\* (name and default are never read by the calls modelled here.)
NewSettingRec(kind) ==
    [kind |-> kind, byte_offset |-> None, bit_offset |-> None]

\* SettingGroup.__init__ up to the call of open().  (name and parent are
\* stored and never read by the calls modelled here.)
NewGroupRec ==
    [exists |-> TRUE, settings |-> <<>>,
     named_predicates |-> <<>>, predicate_number |-> <<>>,
     boolean_offset |-> None, boolean_settings |-> None,
     settings_size |-> None]

Existing == {g \in Groups : grp[g].exists}

ExistingSettings ==
    UNION {{<<g, i>> : i \in 1..Len(grp[g].settings)} : g \in Existing}
TotalSettings == Cardinality(ExistingSettings)

\* len(self.predicate_number)
PredCount(pn) == Cardinality(DOMAIN pn)

\* number_predicate handing out a fresh number on every call.
NumberPredicateRetFresh(pn, pred) == PredCount(pn)

\* number_predicate: the returned number.
NumberPredicateRet(pn, pred) ==
    IF pred \in DOMAIN pn THEN pn[pred] ELSE PredCount(pn)

\* number_predicate giving the next number to a predicate that has one.
NumberPredicateTableAgain(pn, pred) ==
    [p \in DOMAIN pn \cup {pred} |->
        IF p = pred THEN PredCount(pn) ELSE pn[p]]

\* number_predicate: the predicate table afterwards.
NumberPredicateTable(pn, pred) ==
    IF pred \in DOMAIN pn THEN pn ELSE pn @@ (pred :> PredCount(pn))

\* byte_size()
ByteSizeOf(boolean_offset, pn) == boolean_offset + (PredCount(pn) + 7) \div 8

ByteSize(g) == ByteSizeOf(grp[g].boolean_offset, grp[g].predicate_number)

\* layout(), first loop, taking the position in the list for the offset.
AssignBytesByPosition(ss, i, byte_offset) ==
    [settings |-> [j \in DOMAIN ss |->
                      IF ss[j].kind # "bool"
                      THEN [ss[j] EXCEPT !.byte_offset = j - 1] ELSE ss[j]],
     byte_offset |-> Cardinality({j \in DOMAIN ss : ss[j].kind # "bool"})]

\* layout(), first loop: byte offsets of the non-boolean settings.
RECURSIVE AssignBytes(_, _, _)
AssignBytes(ss, i, byte_offset) ==
    IF i > Len(ss) THEN [settings |-> ss, byte_offset |-> byte_offset]
    ELSE IF ss[i].kind # "bool"
         THEN AssignBytes([ss EXCEPT ![i].byte_offset = byte_offset],
                          i + 1, byte_offset + 1)
         ELSE AssignBytes(ss, i + 1, byte_offset)

\* layout(), second loop: number the boolean settings and place their bits.
RECURSIVE AssignBools(_, _, _, _, _)
AssignBools(g, ss, i, byte_offset, pn) ==
    IF i > Len(ss) THEN [settings |-> ss, predicate_number |-> pn]
    ELSE IF ss[i].kind = "bool"
         THEN LET number == NumberPredicateRet(pn, <<g, i>>)
              IN  AssignBools(g,
                      [ss EXCEPT ![i].byte_offset = byte_offset + number \div 8,
                                 ![i].bit_offset = number % 8],
                      i + 1, byte_offset, NumberPredicateTable(pn, <<g, i>>))
         ELSE AssignBools(g, ss, i + 1, byte_offset, pn)

\* layout(), last loop: number the named predicates.
RECURSIVE NumberNamed(_, _, _)
NumberNamed(named, i, pn) ==
    IF i > Len(named) THEN pn
    ELSE NumberNamed(named, i + 1, NumberPredicateTable(pn, named[i]))

\* layout(): the assertion that guards it.
LayoutAllowed(r) == PredCount(r.predicate_number) = 0

\* layout() taking settings_size after the named predicates are numbered.
LayoutSizeAfterNamed(g, r) ==
    LET a == AssignBytes(r.settings, 1, 0)
        b == AssignBools(g, a.settings, 1, a.byte_offset, r.predicate_number)
        pn == NumberNamed(r.named_predicates, 1, b.predicate_number)
    IN  [r EXCEPT !.settings = b.settings,
                  !.boolean_offset = a.byte_offset,
                  !.boolean_settings = PredCount(b.predicate_number),
                  !.settings_size = ByteSizeOf(a.byte_offset, pn),
                  !.predicate_number = pn]

\* layout(): the group once the assertion has passed.
Layout(g, r) ==
    LET a == AssignBytes(r.settings, 1, 0)
        b == AssignBools(g, a.settings, 1, a.byte_offset, r.predicate_number)
    IN  [r EXCEPT !.settings = b.settings,
                  !.boolean_offset = a.byte_offset,
                  !.boolean_settings = PredCount(b.predicate_number),
                  !.settings_size = ByteSizeOf(a.byte_offset, b.predicate_number),
                  !.predicate_number =
                      NumberNamed(r.named_predicates, 1, b.predicate_number)]

\* close(globs): the loop over globs.items(), for the Predicate objects of
\* globs (a Setting of globs only gets its name).  The state is the triple
\* (group, named predicates, ok); the assertion stops the loop where it fails.
RECURSIVE ExtractNames(_, _, _, _)
ExtractNames(r, named, globs, i) ==
    IF i > Len(globs) THEN [grp |-> r, pred_named |-> named, ok |-> TRUE]
    ELSE IF globs[i] \in named
         THEN [grp |-> r, pred_named |-> named, ok |-> FALSE]
         ELSE ExtractNames(
                  [r EXCEPT !.named_predicates = Append(@, globs[i])],
                  named \cup {globs[i]}, globs, i + 1)

(***************************************************************************)
(* The calls on setting groups.                                            *)
(***************************************************************************)
\* open() without its assertion.
OpenAllowedUnchecked(cur) == TRUE

\* open(): the assertion.
OpenAllowed(cur) == cur = NoGroup

\* close(): the assertion.
CloseAllowed(cur, g) == cur = g

\* SettingGroup(name, parent)
NewGroup(g) ==
    /\ ~grp[g].exists
    /\ IF OpenAllowed(sg_current)
       THEN /\ grp' = [grp EXCEPT ![g] = NewGroupRec]
            /\ sg_current' = g
            /\ lastOp' = Op("new_group", NoErr, g)
       ELSE /\ UNCHANGED <<grp, sg_current>>
            /\ lastOp' = Op("new_group", "already_open", g)
    /\ UNCHANGED <<pred_named, formatVars, instVars, declVars>>

\* g.open()
Open(g) ==
    /\ grp[g].exists
    /\ IF OpenAllowed(sg_current)
       THEN /\ sg_current' = g
            /\ lastOp' = Op("open", NoErr, g)
       ELSE /\ UNCHANGED sg_current
            /\ lastOp' = Op("open", "already_open", g)
    /\ UNCHANGED <<grp, pred_named, formatVars, instVars, declVars>>

\* g.close(globs)
Close(g, globs) ==
    /\ grp[g].exists
    /\ IF ~CloseAllowed(sg_current, g)
       THEN /\ UNCHANGED <<sg_current, grp, pred_named>>
            /\ lastOp' = Op("close", "not_open", g)
       ELSE LET x == ExtractNames(grp[g], pred_named, globs, 1) IN
            /\ sg_current' = NoGroup
            /\ pred_named' = x.pred_named
            /\ IF ~x.ok
               THEN /\ grp' = [grp EXCEPT ![g] = x.grp]
                    /\ lastOp' = Op("close", "already_named", g)
               ELSE IF ~LayoutAllowed(x.grp)
               THEN /\ grp' = [grp EXCEPT ![g] = x.grp]
                    /\ lastOp' = Op("close", "too_late", g)
               ELSE /\ grp' = [grp EXCEPT ![g] = Layout(g, x.grp)]
                    /\ lastOp' = Op("close", NoErr, g)
    /\ UNCHANGED <<formatVars, instVars, declVars>>

\* g.layout(), called directly.
LayoutCall(g) ==
    /\ grp[g].exists
    /\ IF ~LayoutAllowed(grp[g])
       THEN /\ UNCHANGED grp
            /\ lastOp' = Op("layout", "too_late", g)
       ELSE /\ grp' = [grp EXCEPT ![g] = Layout(g, @)]
            /\ lastOp' = Op("layout", NoErr, g)
    /\ UNCHANGED <<sg_current, pred_named, formatVars, instVars, declVars>>

\* BoolSetting(doc), NumSetting(doc, default), EnumSetting(doc, *args).
\* Setting.__init__ appends to the open group first; NumSetting and
\* EnumSetting check their arguments afterwards.
NewSetting(kind, argsOk) ==
    /\ TotalSettings < MaxSettings
    /\ IF sg_current = NoGroup
       THEN /\ UNCHANGED grp
            /\ lastOp' = Op("new_setting", "no_group", NoGroup)
       ELSE /\ grp' = [grp EXCEPT ![sg_current].settings =
                                      Append(@, NewSettingRec(kind))]
            /\ lastOp' = Op("new_setting",
                            IF kind # "bool" /\ ~argsOk THEN "bad_args" ELSE NoErr,
                            sg_current)
    /\ UNCHANGED <<sg_current, pred_named, formatVars, instVars, declVars>>

\* g.number_predicate(pred)
NumberPredicate(g, pred) ==
    /\ grp[g].exists
    /\ grp' = [grp EXCEPT ![g].predicate_number = NumberPredicateTable(@, pred)]
    /\ lastOp' = Op("number_predicate", NoErr,
                    NumberPredicateRet(grp[g].predicate_number, pred))
    /\ UNCHANGED <<sg_current, pred_named, formatVars, instVars, declVars>>

\* The dicts passed to close(): the Predicate objects they hold, in the dict's
\* order.  An empty dict is falsy, like None.
DistinctSeqs(S, n) ==
    {q \in UNION {[1..k -> S] : k \in 0..n} :
        \A i, j \in DOMAIN q : i # j => q[i] # q[j]}
GlobsChoices == DistinctSeqs(Preds, MaxGlobs)

(***************************************************************************)
(* Operand kinds, operand types and operands                               *)
(***************************************************************************)
NoTv == "none"

\* The OperandKind objects: value, variable_args and an ImmediateKind.
Kinds == {"value", "variable_args", "imm"}

\* What an Operand may be declared with: a ValueType, a TypeVar (T, U and V
\* are free type variables, dT is derived from T), or an OperandKind.
\* ftv is what free_typevar() returns.
ValueTypes == {[cls |-> "ValueType", name |-> "i32", ftv |-> NoTv]}
TypeVars ==
    {[cls |-> "TypeVar", name |-> "T", ftv |-> "T"],
     [cls |-> "TypeVar", name |-> "U", ftv |-> "U"],
     [cls |-> "TypeVar", name |-> "V", ftv |-> "V"],
     [cls |-> "TypeVar", name |-> "dT", ftv |-> "T"]}
KindTypes == {[cls |-> "OperandKind", name |-> k, ftv |-> NoTv] : k \in Kinds}
KindTypes_value == [cls |-> "OperandKind", name |-> "value", ftv |-> NoTv]

\* typ.operand_kind()
OperandKindOf(typ) == IF typ.cls = "OperandKind" THEN typ.name ELSE "value"

\* typ.free_typevar()
FreeTypevar(typ) == typ.ftv

\* `typ is typ.free_typevar()`: the type is itself a free type variable.
IsFreeTypevar(typ) == typ.cls = "TypeVar" /\ typ.name = FreeTypevar(typ)

\* Operand(name, typ)
Operand(typ) == [typ |-> typ, kind |-> OperandKindOf(typ)]

\* Operand.is_value()
IsValue(op) == op.kind = "value"

SeqsUpTo(S, n) == UNION {[1..k -> S] : k \in 0..n}

(***************************************************************************)
(* InstructionFormat                                                       *)
(***************************************************************************)
NoIndex == -1
NoFormat == [id |-> 0]

\* The registry key: (multiple_results,) + kinds
Sig(multiple_results, kinds) == <<multiple_results>> \o kinds

\* value_operands: the 0-based positions of the `value` kinds.
RECURSIVE ValueOperands(_, _)
ValueOperands(kinds, i) ==
    IF i > Len(kinds) THEN <<>>
    ELSE (IF kinds[i] = "value" THEN <<i - 1>> ELSE <<>>)
             \o ValueOperands(kinds, i + 1)

\* The typevar_operand argument must point to a `value` operand.
TypevarOperandOk(kinds, typevar_operand) ==
    IF typevar_operand = NoIndex THEN TRUE
    ELSE kinds[typevar_operand + 1] = "value"

\* typevar_operand: as given, else the first `value` operand, else None.
TypevarOperand(kinds, typevar_operand) ==
    IF typevar_operand # NoIndex THEN typevar_operand
    ELSE IF Len(ValueOperands(kinds, 1)) > 0 THEN ValueOperands(kinds, 1)[1]
    ELSE NoIndex

\* The InstructionFormat object; id stands for its identity (the place it
\* takes in all_formats when it is registered).
FormatRec(id, kinds, multiple_results, typevar_operand) ==
    [id |-> id, kinds |-> kinds, multiple_results |-> multiple_results,
     value_operands |-> ValueOperands(kinds, 1),
     typevar_operand |-> TypevarOperand(kinds, typevar_operand)]

\* A constructor that would not look for the signature in the registry.
DuplicateSigNever(reg, sig) == FALSE

\* Is the signature of a new format already taken?
DuplicateSig(reg, sig) == sig \in DOMAIN reg

\* InstructionFormat._registry[sig] = self
Register(reg, sig, f) ==
    [k \in DOMAIN reg \cup {sig} |-> IF k = sig THEN f ELSE reg[k]]

\* InstructionFormat(*kinds, multiple_results=..., typevar_operand=...)
NewFormat(kinds, multiple_results, typevar_operand) ==
    LET sig == Sig(multiple_results, kinds)
        f == FormatRec(Len(all_formats) + 1, kinds, multiple_results,
                       typevar_operand)
    IN  /\ Len(all_formats) < MaxFormats
        /\ IF ~TypevarOperandOk(kinds, typevar_operand)
           THEN /\ UNCHANGED <<registry, all_formats>>
                /\ lastOp' = Op("new_format", "bad_typevar_operand", NoFormat)
           ELSE IF DuplicateSig(registry, sig)
           THEN /\ UNCHANGED <<registry, all_formats>>
                /\ lastOp' = Op("new_format", "duplicate_signature", NoFormat)
           ELSE /\ registry' = Register(registry, sig, f)
                /\ all_formats' = Append(all_formats, f)
                /\ lastOp' = Op("new_format", NoErr, f)
        /\ UNCHANGED <<settingsVars, instVars, declVars>>

\* A lookup() that would take the flag from the number of outputs alone.
LookupMultipleResultsByCount(outs) == Len(outs) > 1

\* lookup(): the multiple_results flag derived from the outputs.
LookupMultipleResults(outs) ==
    IF Len(outs) = 1 THEN outs[1].kind = "variable_args" ELSE Len(outs) > 1

\* lookup(): the signature looked up.
LookupSig(ins, outs) ==
    Sig(LookupMultipleResults(outs), [i \in 1..Len(ins) |-> ins[i].kind])

\* lookup(): the format found, or NoFormat where the code raises.
LookupFormat(reg, ins, outs) ==
    IF LookupSig(ins, outs) \in DOMAIN reg THEN reg[LookupSig(ins, outs)]
    ELSE NoFormat

\* InstructionFormat.lookup(ins, outs)
Lookup(ins, outs) ==
    /\ lastOp' = [op |-> "lookup",
                  err |-> IF LookupFormat(registry, ins, outs) = NoFormat
                          THEN "no_matching_format" ELSE NoErr,
                  ret |-> LookupFormat(registry, ins, outs),
                  ins |-> ins, outs |-> outs]
    /\ UNCHANGED <<settingsVars, formatVars, instVars, declVars>>

(***************************************************************************)
(* InstructionGroup / Instruction                                          *)
(***************************************************************************)
TheGroup == "ig"
LayoutGroup == "g1"

\* InstructionGroup(name, doc): a new group with no instructions, opened.
NewInstructionGroup ==
    /\ IF ig_current = NoGroup
       THEN /\ ig_current' = TheGroup
            /\ ig_instructions' = <<>>
            /\ lastOp' = Op("new_instruction_group", NoErr, NoGroup)
       ELSE /\ UNCHANGED <<ig_current, ig_instructions>>
            /\ lastOp' = Op("new_instruction_group", "already_open", NoGroup)
    /\ UNCHANGED <<settingsVars, formatVars, declVars>>

\* InstructionGroup.close()
CloseInstructionGroup ==
    /\ IF ig_current = TheGroup
       THEN /\ ig_current' = NoGroup
            /\ lastOp' = Op("close_instruction_group", NoErr, NoGroup)
       ELSE /\ UNCHANGED ig_current
            /\ lastOp' = Op("close_instruction_group", "not_open", NoGroup)
    /\ UNCHANGED <<ig_instructions, settingsVars, formatVars, declVars>>

\* _verify_polymorphic: the value inputs that carry a free type variable.
PolyIns(fmt, ins) ==
    {i \in 1..Len(fmt.value_operands) :
        FreeTypevar(ins[fmt.value_operands[i] + 1].typ) # NoTv}

\* _verify_polymorphic: the outputs that carry a free type variable.
PolyOuts(outs) == {i \in 1..Len(outs) : FreeTypevar(outs[i].typ) # NoTv}

\* A polymorphism test that would look at the inputs only.
IsPolymorphicInsOnly(fmt, ins, outs) == PolyIns(fmt, ins) # {}

IsPolymorphic(fmt, ins, outs) == PolyIns(fmt, ins) # {} \/ PolyOuts(outs) # {}

\* _verify_ctrl_typevar, the loop over the value inputs from the k-th value
\* operand on: the other type variables collected, or the error raised.
RECURSIVE VerifyInputs(_, _, _, _, _)
VerifyInputs(fmt, ins, ctrl_typevar, k, other_tvs) ==
    IF k > Len(fmt.value_operands) THEN [err |-> NoErr, other_tvs |-> other_tvs]
    ELSE LET typ == ins[fmt.value_operands[k] + 1].typ
             tv == FreeTypevar(typ)
         IN  IF tv = NoTv \/ tv = ctrl_typevar.name
             THEN VerifyInputs(fmt, ins, ctrl_typevar, k + 1, other_tvs)
             ELSE IF typ.name # tv
             THEN [err |-> "must_be_derived_from_ctrl", other_tvs |-> other_tvs]
             ELSE IF \E j \in 1..Len(other_tvs) : other_tvs[j] = tv
             THEN [err |-> "used_more_than_once", other_tvs |-> other_tvs]
             ELSE VerifyInputs(fmt, ins, ctrl_typevar, k + 1,
                               Append(other_tvs, tv))

\* An output loop that would stop after the first result.
OutputsDerivedFirstOnly(outs, ctrl_typevar) ==
    Len(outs) > 0 => FreeTypevar(outs[1].typ) \in {NoTv, ctrl_typevar.name}

\* _verify_ctrl_typevar, the loop over the outputs.
OutputsDerived(outs, ctrl_typevar) ==
    \A i \in 1..Len(outs) :
        FreeTypevar(outs[i].typ) \in {NoTv, ctrl_typevar.name}

\* _verify_ctrl_typevar(ctrl_typevar)
VerifyCtrlTypevar(fmt, ins, outs, ctrl_typevar) ==
    LET r == VerifyInputs(fmt, ins, ctrl_typevar, 1, <<>>)
    IN  IF r.err # NoErr THEN r
        ELSE IF ~OutputsDerived(outs, ctrl_typevar)
        THEN [err |-> "output_not_derived", other_tvs |-> r.other_tvs]
        ELSE r

NoTypevar == [cls |-> "none", name |-> NoTv, ftv |-> NoTv]

\* The attributes _verify_polymorphic leaves on the instruction.
Poly(err, use, ctrl, other) ==
    [err |-> err, is_polymorphic |-> TRUE, use_typevar_operand |-> use,
     ctrl_typevar |-> ctrl, other_typevars |-> other]

\* _verify_polymorphic, first try: the format's typevar_operand.  A
\* RuntimeError of _verify_ctrl_typevar is caught and kept in typevar_error.
TryTypevarOperand(fmt, ins, outs) ==
    IF fmt.typevar_operand = NoIndex
    THEN [used |-> FALSE, typevar_error |-> NoErr]
    ELSE LET tv == ins[fmt.typevar_operand + 1].typ IN
         IF ~IsFreeTypevar(tv)
         THEN [used |-> FALSE, typevar_error |-> NoErr]
         ELSE LET r == VerifyCtrlTypevar(fmt, ins, outs, tv) IN
              IF r.err = NoErr
              THEN [used |-> TRUE, typevar_error |-> NoErr, ctrl_typevar |-> tv,
                    other_typevars |-> r.other_tvs]
              ELSE [used |-> FALSE, typevar_error |-> r.err]

\* A second try that would give up whenever the first one raised.
TryFirstResultRaise(fmt, ins, outs, typevar_error) ==
    IF typevar_error # NoErr
    THEN Poly(typevar_error, FALSE, NoTypevar, <<>>)
    ELSE IF Len(outs) = 0
    THEN Poly("typevar_operand_not_free", FALSE, NoTypevar, <<>>)
    ELSE IF ~IsFreeTypevar(outs[1].typ)
    THEN Poly("first_result_not_free", FALSE, NoTypevar, <<>>)
    ELSE LET r == VerifyCtrlTypevar(fmt, ins, outs, outs[1].typ) IN
         IF r.err # NoErr THEN Poly(r.err, FALSE, NoTypevar, <<>>)
         ELSE Poly(NoErr, FALSE, outs[1].typ, r.other_tvs)

\* _verify_polymorphic, second try: the first result.
TryFirstResult(fmt, ins, outs, typevar_error) ==
    IF Len(outs) = 0
    THEN Poly(IF typevar_error # NoErr THEN typevar_error
              ELSE "typevar_operand_not_free", FALSE, NoTypevar, <<>>)
    ELSE IF ~IsFreeTypevar(outs[1].typ)
    THEN Poly("first_result_not_free", FALSE, NoTypevar, <<>>)
    ELSE LET r == VerifyCtrlTypevar(fmt, ins, outs, outs[1].typ) IN
         IF r.err # NoErr THEN Poly(r.err, FALSE, NoTypevar, <<>>)
         ELSE Poly(NoErr, FALSE, outs[1].typ, r.other_tvs)

\* _verify_polymorphic()
VerifyPolymorphic(fmt, ins, outs) ==
    IF ~IsPolymorphic(fmt, ins, outs)
    THEN [err |-> NoErr, is_polymorphic |-> FALSE, use_typevar_operand |-> FALSE,
          ctrl_typevar |-> NoTypevar, other_typevars |-> <<>>]
    ELSE LET t == TryTypevarOperand(fmt, ins, outs) IN
         IF t.used THEN Poly(NoErr, TRUE, t.ctrl_typevar, t.other_typevars)
         ELSE TryFirstResult(fmt, ins, outs, t.typevar_error)

\* value_results: the 0-based positions of the value outputs.
RECURSIVE ValueResults(_, _)
ValueResults(outs, i) ==
    IF i > Len(outs) THEN <<>>
    ELSE (IF IsValue(outs[i]) THEN <<i - 1>> ELSE <<>>)
             \o ValueResults(outs, i + 1)

NoInst == [format |-> NoFormat]

\* The Instruction object.
InstRec(fmt, ins, outs, v) ==
    [format |-> fmt, ins |-> ins, outs |-> outs,
     value_results |-> ValueResults(outs, 1),
     is_polymorphic |-> v.is_polymorphic,
     use_typevar_operand |-> v.use_typevar_operand,
     ctrl_typevar |-> v.ctrl_typevar, other_typevars |-> v.other_typevars]

InstOp(err, ret, ins, outs) ==
    [op |-> "new_instruction", err |-> err, ret |-> ret,
     ins |-> ins, outs |-> outs]

\* Instruction(name, doc, ins, outs)
NewInstruction(ins, outs) ==
    LET fmt == LookupFormat(registry, ins, outs) IN
    /\ IF fmt = NoFormat
       THEN /\ lastOp' = InstOp("no_matching_format", NoInst, ins, outs)
            /\ UNCHANGED ig_instructions
       ELSE LET v == VerifyPolymorphic(fmt, ins, outs) IN
            IF v.err # NoErr
            THEN /\ lastOp' = InstOp(v.err, NoInst, ins, outs)
                 /\ UNCHANGED ig_instructions
            ELSE IF ig_current = NoGroup
            THEN /\ lastOp' = InstOp("no_group", NoInst, ins, outs)
                 /\ UNCHANGED ig_instructions
            ELSE /\ lastOp' = InstOp(NoErr, InstRec(fmt, ins, outs, v), ins, outs)
                 /\ ig_instructions' =
                        Append(ig_instructions, InstRec(fmt, ins, outs, v))
    /\ UNCHANGED <<ig_current, settingsVars, formatVars, declVars>>

(***************************************************************************)
(* Instruction.bind / BoundInstruction                                     *)
(***************************************************************************)
NoBound == [exists |-> FALSE]

\* The ValueType objects given to bind().
BindTypes == {"i32", "i64"}

\* BoundInstruction(inst, typevars): the assert of __init__.
BoundAllowed(inst, typevars) == Len(typevars) <= 1 + Len(inst.other_typevars)

\* A concatenation the other way round.
PrependArgs(typevars, args) == args \o typevars

\* self.typevars + args
AppendArgs(typevars, args) == typevars \o args

\* BoundInstruction(inst, typevars): the object made, or the error raised.
NewBound(inst, typevars) ==
    IF BoundAllowed(inst, typevars)
    THEN [err |-> NoErr,
          obj |-> [exists |-> TRUE, inst |-> inst, typevars |-> typevars]]
    ELSE [err |-> "too_many_typevars", obj |-> NoBound]

\* Instruction.bind(*args): the object made, or the error raised.
InstBindOutcome(inst, args) ==
    IF ~inst.is_polymorphic
    THEN [err |-> "not_polymorphic", obj |-> NoBound]
    ELSE NewBound(inst, args)

BindOp(name, err, args, ret) ==
    [op |-> name, err |-> err, args |-> args, ret |-> ret]

\* inst.bind(*args), the result kept in `bound` when there is one.
InstBind(args) ==
    LET r == InstBindOutcome(ig_instructions[1], args) IN
    /\ bound' = IF r.err = NoErr THEN r.obj ELSE bound
    /\ lastOp' = BindOp("bind", r.err, args, r.obj)
    /\ UNCHANGED <<settingsVars, formatVars, instVars, typeVars, xformVars, isa>>

\* bound.bind(*args), the result kept in `bound` when there is one.
BoundBind(args) ==
    LET r == NewBound(bound.inst, AppendArgs(bound.typevars, args)) IN
    /\ bound.exists
    /\ bound' = IF r.err = NoErr THEN r.obj ELSE bound
    /\ lastOp' = BindOp("bound_bind", r.err, args, r.obj)
    /\ UNCHANGED <<settingsVars, formatVars, instVars, typeVars, xformVars, isa>>

\* seq[start:] of Python: a negative start counts from the end.
PySliceFrom(seq, start) ==
    LET from == IF start < 0
                THEN (IF Len(seq) + start < 0 THEN 0 ELSE Len(seq) + start)
                ELSE (IF start > Len(seq) THEN Len(seq) ELSE start)
    IN  [k \in 1..(Len(seq) - from) |-> seq[from + k]]

\* BoundInstruction.fully_bound(): the type variables the error names.
Unbound(b) == PySliceFrom(b.inst.other_typevars, Len(b.typevars) - 1)

\* bound.fully_bound()
FullyBound ==
    /\ bound.exists
    /\ IF Len(bound.typevars) < 1 + Len(bound.inst.other_typevars)
       THEN lastOp' = BindOp("fully_bound", "unbound_typevar", <<>>, Unbound(bound))
       ELSE lastOp' = BindOp("fully_bound", NoErr, <<>>, bound.typevars)
    /\ UNCHANGED <<settingsVars, formatVars, instVars, declVars>>

(***************************************************************************)
(* Rtl / XForm (xform.py).  A statement is a Def: the names of the         *)
(* variables it defines (none for a bare Apply) and the arguments of the   *)
(* instruction applied.  An argument is a variable, an immediate, or a     *)
(* nested Apply of variables.                                              *)
(***************************************************************************)
NoXForm == [exists |-> FALSE]

\* Var.SRCCTX, Var.DSTCTX: the bits of Var.defctx.
SRCCTX == 1
DSTCTX == 2

\* a & b and a | b on the two bits of defctx.
BitAnd(a, b) == (a % 2) * (b % 2) + 2 * ((a \div 2) * (b \div 2))
BitOr(a, b) ==
    (IF (a % 2) + (b % 2) > 0 THEN 1 ELSE 0)
        + 2 * (IF (a \div 2) + (b \div 2) > 0 THEN 1 ELSE 0)

\* Var.is_input(), Var.is_output()
VarIsInput(defctx) == defctx = 0
VarIsOutput(defctx) == defctx = BitOr(SRCCTX, DSTCTX)

VarArg(name) == [kind |-> "var", name |-> name, args |-> <<>>, value |-> TRUE]
ImmArg(value) == [kind |-> "imm", name |-> "", args |-> <<>>, value |-> value]
ApplyArg(names) == [kind |-> "apply", name |-> "", args |-> names, value |-> TRUE]
Def(defs, args) == [defs |-> defs, args |-> args]

\* The Var objects of the doctest, which every pattern is written with.
CallerNames == {"a", "c", "v", "x"}

\* A constructor whose symbol table outlives it: the table of the transform
\* made before is still there.
RewritingKept(symtab, inputs, defs, err) ==
    [symtab |-> IF xforms # <<>> THEN xforms[Len(xforms)].symtab
                ELSE IF xform.exists THEN xform.symtab
                ELSE symtab,
     inputs |-> inputs, defs |-> defs, err |-> err]

\* What the constructor has built so far: the symbol table (name -> defctx
\* of the private Var), self.inputs, self.defs, and the error raised.
Rewriting(symtab, inputs, defs, err) ==
    [symtab |-> symtab, inputs |-> inputs, defs |-> defs, err |-> err]

SetCtx(symtab, name, ctx) ==
    [n \in DOMAIN symtab \cup {name} |-> IF n = name THEN ctx ELSE symtab[n]]

\* A rewriting that takes any further definition of a symbol.
RewriteDefAgain(st, name, context) ==
    IF name \in DOMAIN st.symtab
    THEN [st EXCEPT !.symtab = SetCtx(@, name, BitOr(@[name], context))]
    ELSE [st EXCEPT !.symtab = SetCtx(@, name, context),
                    !.defs = Append(@, name)]

\* _rewrite_defs, one symbol.
RewriteDef(st, name, context) ==
    IF name \in DOMAIN st.symtab
    THEN IF BitAnd(st.symtab[name], context) # 0
         THEN [st EXCEPT !.err = "multiply_defined"]
         ELSE [st EXCEPT !.symtab = SetCtx(@, name, BitOr(@[name], context))]
    ELSE [st EXCEPT !.symtab = SetCtx(@, name, context),
                    !.defs = Append(@, name)]

\* _rewrite_defs: the symbols of one Def, from the i-th on.
RECURSIVE RewriteDefs(_, _, _, _)
RewriteDefs(st, defs, i, context) ==
    IF i > Len(defs) \/ st.err # NoErr THEN st
    ELSE RewriteDefs(RewriteDef(st, defs[i], context), defs, i + 1, context)

\* _rewrite_uses, one argument that is a Var.
RewriteUse(st, name, context) ==
    IF name \in DOMAIN st.symtab
    THEN IF st.symtab[name] # 0 /\ BitAnd(st.symtab[name], context) = 0
         THEN [st EXCEPT !.err = "used_as_input_and_def"]
         ELSE st
    ELSE [st EXCEPT !.symtab = SetCtx(@, name, 0),
                    !.inputs = Append(@, name)]

\* _rewrite_uses: the arguments of one Apply, from the i-th on.  A nested
\* Apply is pushed on the stack; an argument that is neither must not sit
\* at a value operand.
RECURSIVE RewriteUses(_, _, _, _, _)
RewriteUses(st, args, i, context, stack) ==
    IF i > Len(args) \/ st.err # NoErr THEN [st |-> st, stack |-> stack]
    ELSE IF args[i].kind = "apply"
    THEN RewriteUses(st, args, i + 1, context,
                     Append(stack, [k \in 1..Len(args[i].args) |->
                                       VarArg(args[i].args[k])]))
    ELSE IF args[i].kind = "imm"
    THEN RewriteUses(IF args[i].value
                     THEN [st EXCEPT !.err = "value_arg_must_be_var"] ELSE st,
                     args, i + 1, context, stack)
    ELSE RewriteUses(RewriteUse(st, args[i].name, context),
                     args, i + 1, context, stack)

\* _rewrite_expr: the loop that pops the last Apply pushed.
RECURSIVE RewriteExpr(_, _, _)
RewriteExpr(st, stack, context) ==
    IF stack = <<>> \/ st.err # NoErr THEN st
    ELSE LET r == RewriteUses(st, stack[Len(stack)], 1, context,
                              SubSeq(stack, 1, Len(stack) - 1))
         IN  RewriteExpr(r.st, r.stack, context)

\* _rewrite_rtl: the statements from the i-th on, each one's defs first.
RECURSIVE RewriteRtl(_, _, _, _)
RewriteRtl(st, rtl, i, context) ==
    IF i > Len(rtl) \/ st.err # NoErr THEN st
    ELSE LET d == RewriteDefs(st, rtl[i].defs, 1, context)
         IN  RewriteRtl(RewriteExpr(d, <<rtl[i].args>>, context),
                        rtl, i + 1, context)

\* A constructor without the first check.
InputsUnchecked(st) == TRUE

\* The first check after both halves are rewritten: every input is_input().
InputsConsistent(st) ==
    \A i \in 1..Len(st.inputs) : VarIsInput(st.symtab[st.inputs[i]])

\* A constructor that lets the destination pattern bring inputs of its own.
ExtraInputsIgnored(s1, s2) == FALSE

\* The second check: the destination pattern added to the inputs, s1 being
\* the rewriting after the source pattern and s2 after both.
ExtraInputs(s1, s2) == Len(s2.inputs) > Len(s1.inputs)

\* XForm(src, dst): the object made, or the error raised.
NewXFormOutcome(src, dst) ==
    LET s1 == RewriteRtl(Rewriting(<<>>, <<>>, <<>>, NoErr), src, 1, SRCCTX)
        s2 == RewriteRtl(s1, dst, 1, DSTCTX)
        err == IF s2.err # NoErr THEN s2.err
               ELSE IF ~InputsConsistent(s2) THEN "used_as_input_and_def"
               ELSE IF ExtraInputs(s1, s2) THEN "extra_inputs_in_dst"
               ELSE NoErr
    IN  [err |-> err,
         obj |-> IF err # NoErr THEN NoXForm
                 ELSE [exists |-> TRUE, src |-> src, dst |-> dst,
                       inputs |-> s2.inputs, defs |-> s2.defs,
                       symtab |-> s2.symtab]]

\* A verification that is content with a definition in either pattern.
VerifyLegalizeAnyDef(xf) ==
    IF Len(xf.src) # 1 THEN "needs_single_instruction"
    ELSE IF \E i \in 1..Len(xf.src[1].defs) :
                VarIsInput(xf.symtab[xf.src[1].defs[i]])
    THEN "not_defined_in_dest"
    ELSE NoErr

\* verify_legalize(): the error raised, if any.
VerifyLegalizeErr(xf) ==
    IF Len(xf.src) # 1 THEN "needs_single_instruction"
    ELSE IF \E i \in 1..Len(xf.src[1].defs) :
                ~VarIsOutput(xf.symtab[xf.src[1].defs[i]])
    THEN "not_defined_in_dest"
    ELSE NoErr

XFormOp(name, err, src, dst) ==
    [op |-> name, err |-> err, src |-> src, dst |-> dst]

\* The caller's Var objects after a pattern is rewritten: _rewrite_defs and
\* _rewrite_uses take only the name of a caller's Var, and set defctx on the
\* Var(name) they put in the symbol table.
CallerVarsAfter(cv, src, dst) == cv

\* XForm(src, dst), kept in `xform` when it is constructed.
NewXForm(src, dst) ==
    LET r == NewXFormOutcome(src, dst) IN
    /\ xform' = IF r.err = NoErr THEN r.obj ELSE xform
    /\ caller_vars' = CallerVarsAfter(caller_vars, src, dst)
    /\ lastOp' = XFormOp("new_xform", r.err, src, dst)
    /\ UNCHANGED <<settingsVars, formatVars, instVars, bound, typeVars,
                   xforms, isa>>

\* xform.verify_legalize()
VerifyLegalize ==
    /\ xform.exists
    /\ lastOp' = XFormOp("verify_legalize", VerifyLegalizeErr(xform),
                         xform.src, xform.dst)
    /\ UNCHANGED <<settingsVars, formatVars, instVars, declVars>>

\* A legalize() that would append before verifying.
LegalizeAppends(r) == r.err = NoErr

\* XFormGroup.legalize(src, dst): is the XForm appended?
LegalizeAppendAllowed(r) == r.err = NoErr /\ VerifyLegalizeErr(r.obj) = NoErr

\* XFormGroup.legalize(src, dst), src a single Def or Apply.
Legalize(src, dst) ==
    LET r == NewXFormOutcome(<<src>>, dst)
        err == IF r.err # NoErr THEN r.err ELSE VerifyLegalizeErr(r.obj)
    IN  /\ xforms' = IF LegalizeAppendAllowed(r) THEN Append(xforms, r.obj)
                     ELSE xforms
        /\ caller_vars' = CallerVarsAfter(caller_vars, <<src>>, dst)
        /\ lastOp' = XFormOp("legalize", err, <<src>>, dst)
        /\ UNCHANGED <<settingsVars, formatVars, instVars, bound, typeVars,
                       xform, isa>>

(***************************************************************************)
(* ValueType, ScalarType                                                   *)
(* Type names are only compared with one another: the names are numbers,   *)
(* and the n-th new name is n.                                             *)
(***************************************************************************)
\* `assert self.number < 16`
ScalarLimit == 16

\* A ScalarType that lets the number reach the limit.
NumberAllowedUpToLimit(number) == number <= ScalarLimit

\* ScalarType.__init__: the assertion on the number.
NumberAllowed(number) == number < ScalarLimit

TypeOp(name, err, type, number) ==
    [op |-> name, err |-> err, type |-> type, number |-> number]

\* ScalarType(name, membytes, doc).  ValueType.__init__ refuses a registered
\* name before anything is stored; the number is checked after the type is
\* registered and appended to all_scalars.
NewScalarType(name) ==
    IF name \in type_registry
    THEN /\ UNCHANGED typeVars
         /\ lastOp' = TypeOp("new_scalar", "name_registered", name, None)
         /\ UNCHANGED <<settingsVars, formatVars, instVars, bound, xformVars,
                        isa>>
    ELSE LET number == Len(all_scalars) + 1 IN
         /\ type_registry' = type_registry \cup {name}
         /\ all_scalars' = Append(all_scalars,
                                  [name |-> name, number |-> number])
         /\ vectors' = vectors
         /\ lastOp' = TypeOp("new_scalar",
                             IF NumberAllowed(number) THEN NoErr
                             ELSE "too_many_scalar_types",
                             name, number)
         /\ UNCHANGED <<settingsVars, formatVars, instVars, bound, xformVars,
                        isa>>

\* '{}x{}'.format(base.name, lanes): the name of a vector type, told apart
\* from every scalar name of the model and from the other vector names.
VectorName(base, lanes) == 100 * (lanes + 1) + base

\* int(math.log(lanes, 2)), for lanes >= 1: the logarithm cut to an integer.
RECURSIVE Log2Int(_)
Log2Int(lanes) == IF lanes < 2 THEN 0 ELSE 1 + Log2Int(lanes \div 2)

NoVector == [exists |-> FALSE]

\* VectorType.__init__ once the name is registered and the logarithm taken.
\* (membytes is stored and never read by the calls modelled here.)
VectorRec(base, lanes) ==
    [exists |-> TRUE, name |-> VectorName(base.name, lanes),
     base |-> base.name, lanes |-> lanes,
     number |-> 16 * Log2Int(lanes) + base.number]

\* The record of a by() call; made tells that VectorType(...) was called.
VectorOp(err, base, lanes, ret, made) ==
    [op |-> "by", err |-> err, base |-> base, lanes |-> lanes, ret |-> ret,
     made |-> made]

\* A by() that makes a new VectorType on every call.
MemoizedNever(vs, key) == FALSE

\* by(): `lanes in self._vectors`
Memoized(vs, key) == key \in DOMAIN vs

\* self._vectors[lanes] = v
Memoize(vs, key, v) ==
    [k \in DOMAIN vs \cup {key} |-> IF k = key THEN v ELSE vs[k]]

\* base.by(lanes), base the b-th scalar type declared.  A VectorType that is
\* not memoized is constructed: ValueType.__init__ refuses a registered name,
\* registers the name otherwise, and math.log raises for lanes <= 0 with the
\* name registered already.
By(b, lanes) ==
    /\ b \in 1..Len(all_scalars)
    /\ NumberAllowed(all_scalars[b].number)
    /\ LET base == all_scalars[b]
           key == <<base.name, lanes>>
           name == VectorName(base.name, lanes)
       IN  IF Memoized(vectors, key)
           THEN /\ UNCHANGED typeVars
                /\ lastOp' = VectorOp(NoErr, base.name, lanes, vectors[key],
                                      FALSE)
           ELSE IF name \in type_registry
           THEN /\ UNCHANGED typeVars
                /\ lastOp' = VectorOp("name_registered", base.name, lanes,
                                      NoVector, TRUE)
           ELSE IF lanes <= 0
           THEN /\ type_registry' = type_registry \cup {name}
                /\ UNCHANGED <<all_scalars, vectors>>
                /\ lastOp' = VectorOp("math_domain", base.name, lanes,
                                      NoVector, TRUE)
           ELSE /\ type_registry' = type_registry \cup {name}
                /\ vectors' = Memoize(vectors, key, VectorRec(base, lanes))
                /\ UNCHANGED all_scalars
                /\ lastOp' = VectorOp(NoErr, base.name, lanes,
                                      VectorRec(base, lanes), TRUE)
    /\ UNCHANGED <<settingsVars, formatVars, instVars, bound, xformVars, isa>>

(***************************************************************************)
(* TargetISA, CPUMode, Encoding                                            *)
(***************************************************************************)
NoIsa == [exists |-> FALSE]

\* Python's None, for a predicate-valued attribute.
NoPred == <<"none", 0>>

\* EncRecipe objects and instruction predicates, told apart by identity.
Recipes == {"r1", "r2"}
InstPs == {<<"instp", 1>>, <<"instp", 2>>}

\* The settings group of the ISA and its parent group.
ParentGroup == "g1"
IsaGroup == "g2"

\* An ISA predicate that is the conjunction of a setting of the parent group
\* and a setting of the ISA's own group.
BothSettings == <<"pred", 1>>

\* predicate_leafs: the settings a predicate is composed of.
PredicateLeafs(pred) ==
    IF pred = BothSettings THEN {<<ParentGroup, 1>>, <<IsaGroup, 1>>}
    ELSE {pred}

\* TargetISA.__init__, followed by the assignment of isa.settings.  The
\* number of a recipe or predicate is an attribute that finish() creates.
NewIsaRec(settings) ==
    [exists |-> TRUE, settings |-> settings, cpumodes |-> <<>>,
     all_recipes |-> <<>>, all_instps |-> <<>>,
     recipe_number |-> [r \in Recipes |-> None],
     instp_number |-> [p \in InstPs |-> None]]

\* The attributes of an Encoding that finish() reads.
Encoding(recipe, instp, isap) ==
    [recipe |-> recipe, instp |-> instp, isap |-> isap]

\* The encodings of all CPU modes, mode after mode from the m-th on.
RECURSIVE AllEncodings(_, _)
AllEncodings(cpumodes, m) ==
    IF m > Len(cpumodes) THEN <<>>
    ELSE cpumodes[m] \o AllEncodings(cpumodes, m + 1)

InSeq(x, seq) == \E i \in 1..Len(seq) : seq[i] = x

\* A numbering that starts at one.
NextNumberFromOne(seen) == Len(seen) + 1

\* len(rcps), len(instps): the number given to what is seen first.
NextNumber(seen) == Len(seen)

\* _collect_encoding_recipes: the loop, from the i-th encoding on.
RECURSIVE CollectRecipes(_, _, _, _)
CollectRecipes(encs, i, all, number) ==
    IF i > Len(encs) THEN [all |-> all, number |-> number]
    ELSE IF InSeq(encs[i].recipe, all)
    THEN CollectRecipes(encs, i + 1, all, number)
    ELSE CollectRecipes(encs, i + 1, Append(all, encs[i].recipe),
                        [number EXCEPT ![encs[i].recipe] = NextNumber(all)])

\* _collect_predicates: the loop, from the i-th encoding on; pn is the
\* predicate_number of the ISA's settings group.
RECURSIVE CollectPredicates(_, _, _, _, _)
CollectPredicates(encs, i, all, number, pn) ==
    IF i > Len(encs) THEN [all |-> all, number |-> number, pn |-> pn]
    ELSE LET instp == encs[i].instp
             isap == encs[i].isap
             fresh == instp # NoPred /\ ~InSeq(instp, all)
         IN  CollectPredicates(encs, i + 1,
                 IF fresh THEN Append(all, instp) ELSE all,
                 IF fresh THEN [number EXCEPT ![instp] = NextNumber(all)]
                 ELSE number,
                 IF isap # NoPred THEN NumberPredicateTable(pn, isap) ELSE pn)

TotalEncodings == Len(AllEncodings(isa.cpumodes, 1))

IsaOp(name, err) == [op |-> name, err |-> err]

\* CPUMode(name, isa)
NewCPUMode ==
    /\ isa.exists
    /\ isa' = [isa EXCEPT !.cpumodes = Append(@, <<>>)]
    /\ lastOp' = IsaOp("new_cpumode", NoErr)
    /\ UNCHANGED <<settingsVars, formatVars, instVars, bound, typeVars,
                   xformVars>>

\* mode.enc(inst, recipe, encbits, instp, isap), for an instruction of the
\* recipe's format; instp and isap are the predicates the Encoding ends up
\* with (recipe's and encoding's combined).
Enc(m, recipe, instp, isap) ==
    /\ isa.exists
    /\ m \in 1..Len(isa.cpumodes)
    /\ isa' = [isa EXCEPT !.cpumodes[m] =
                              Append(@, Encoding(recipe, instp, isap))]
    /\ lastOp' = IsaOp("enc", NoErr)
    /\ UNCHANGED <<settingsVars, formatVars, instVars, bound, typeVars,
                   xformVars>>

\* isa.finish()
Finish ==
    /\ isa.exists
    /\ LET encs == AllEncodings(isa.cpumodes, 1)
           r == CollectRecipes(encs, 1, <<>>, isa.recipe_number)
           p == CollectPredicates(encs, 1, <<>>, isa.instp_number,
                                  grp[isa.settings].predicate_number)
       IN  /\ isa' = [isa EXCEPT !.all_recipes = r.all,
                                 !.recipe_number = r.number,
                                 !.all_instps = p.all,
                                 !.instp_number = p.number]
           /\ grp' = [grp EXCEPT ![isa.settings].predicate_number = p.pn]
    /\ lastOp' = IsaOp("finish", NoErr)
    /\ UNCHANGED <<sg_current, pred_named, formatVars, instVars, bound,
                   typeVars, xformVars>>

InitSettings ==
    /\ sg_current = NoGroup
    /\ grp = [g \in Groups |-> Absent]
    /\ pred_named = {}

InitFormats ==
    /\ registry = <<>>
    /\ all_formats = <<>>

InitInst ==
    /\ ig_current = NoGroup
    /\ ig_instructions = <<>>

\* No BoundInstruction, ValueType, XForm or TargetISA has been made.
InitBound == bound = NoBound
InitTypes == type_registry = {} /\ all_scalars = <<>> /\ vectors = <<>>
InitXForms ==
    /\ xform = NoXForm
    /\ xforms = <<>>
    /\ caller_vars = [n \in CallerNames |-> 0]
InitIsa == isa = NoIsa
InitDecl == InitBound /\ InitTypes /\ InitXForms /\ InitIsa

(***************************************************************************)
(* Spec: setting groups are constructed, opened, filled and closed.        *)
(***************************************************************************)
Init ==
    /\ InitSettings
    /\ InitFormats
    /\ InitInst
    /\ InitDecl
    /\ lastOp = Op("init", NoErr, NoGroup)

Next ==
    \/ \E g \in Groups : NewGroup(g)
    \/ \E g \in Groups : Open(g)
    \/ \E g \in Groups, globs \in GlobsChoices : Close(g, globs)
    \/ \E kind \in SettingKinds, argsOk \in BOOLEAN : NewSetting(kind, argsOk)

Spec == Init /\ [][Next]_vars

(***************************************************************************)
(* SpecPredicates: one setting group, with every call on it: it is         *)
(* constructed, filled, closed, reopened, laid out, and predicates and     *)
(* settings are numbered in it.                                            *)
(***************************************************************************)
\* The objects number_predicate() may be given: the settings, and a
\* predicate (one that close() may have named, or not).
Objects == ExistingSettings \cup {<<"pred", 1>>}

NextPredicates ==
    \/ NewGroup(LayoutGroup)
    \/ Open(LayoutGroup)
    \/ \E globs \in GlobsChoices : Close(LayoutGroup, globs)
    \/ LayoutCall(LayoutGroup)
    \/ \E kind \in LayoutKinds, argsOk \in BOOLEAN : NewSetting(kind, argsOk)
    \/ \E pred \in Objects : NumberPredicate(LayoutGroup, pred)

SpecPredicates == Init /\ [][NextPredicates]_vars

(***************************************************************************)
(* SpecLayout: one group, open, holding any list of settings (the state    *)
(* after SettingGroup("g1") and that many Setting constructions); then     *)
(* close(), layout() and number_predicate() in any order.                  *)
(***************************************************************************)
SettingLists ==
    UNION {[1..n -> {NewSettingRec(k) : k \in LayoutKinds}] :
              n \in 0..MaxLayoutSettings}

\* The objects number_predicate() is given here: the Predicate objects.
LayoutPreds == Preds

InitLayout ==
    /\ sg_current = LayoutGroup
    /\ \E ss \in SettingLists :
          grp = [g \in Groups |->
                    IF g = LayoutGroup THEN [NewGroupRec EXCEPT !.settings = ss]
                    ELSE Absent]
    /\ pred_named = {}
    /\ InitFormats
    /\ InitInst
    /\ InitDecl
    /\ lastOp = Op("init", NoErr, NoGroup)

NextLayout ==
    \/ \E globs \in GlobsChoices : Close(LayoutGroup, globs)
    \/ LayoutCall(LayoutGroup)
    \/ \E pred \in LayoutPreds : NumberPredicate(LayoutGroup, pred)

SpecLayout == InitLayout /\ [][NextLayout]_vars

(***************************************************************************)
(* SpecFormat: instruction formats are declared, then one signature is     *)
(* looked up (lookup() reads the registry and writes nothing, so what it   *)
(* answers is examined once per registry).                                 *)
(***************************************************************************)
\* The operand shapes of the formats declared: up to two operands, each a
\* value or an immediate.
FormatKinds == {"value", "imm"}
KindSeqs ==
    {<<>>} \cup {<<a>> : a \in FormatKinds}
           \cup {<<a, b>> : a \in FormatKinds, b \in FormatKinds}

FormatDecls ==
    {d \in [kinds : KindSeqs, multiple_results : BOOLEAN,
            typevar_operand : {NoIndex, 0, 1}] :
        d.typevar_operand < Len(d.kinds)}

\* One operand of each kind.
KindOperands == {Operand(t) : t \in ValueTypes \cup (KindTypes \ {KindTypes_value})}
LookupIns ==
    {[i \in DOMAIN ks |-> CHOOSE op \in KindOperands : op.kind = ks[i]] :
        ks \in KindSeqs}
LookupOuts ==
    SeqsUpTo({op \in KindOperands : op.kind \in {"value", "variable_args"}},
             MaxOuts)

NextFormat ==
    \/ /\ lastOp.op # "lookup"
       /\ \E d \in FormatDecls :
             NewFormat(d.kinds, d.multiple_results, d.typevar_operand)
    \/ /\ lastOp.op # "lookup"
       /\ \E ins \in LookupIns, outs \in LookupOuts : Lookup(ins, outs)

SpecFormat == Init /\ [][NextFormat]_vars

(***************************************************************************)
(* SpecInst: one format is registered; an instruction group is opened or   *)
(* closed; then one instruction is defined.  (An Instruction reads the     *)
(* registry and the open group and, besides itself, only appends to the    *)
(* group, so definitions are examined one per behaviour.)                  *)
(***************************************************************************)
InstTypes == ValueTypes \cup TypeVars
InsOperands ==
    {Operand(t) : t \in InstTypes \cup (KindTypes \ {KindTypes_value})}
InstIns ==
    {<<>>} \cup {<<a>> : a \in InsOperands}
           \cup {<<a, b>> : a \in InsOperands, b \in InsOperands}
InstOuts ==
    SeqsUpTo({Operand(t) : t \in InstTypes \cup
                 {k \in KindTypes : k.name = "variable_args"}}, MaxOuts)

InitInstSpec ==
    /\ InitSettings
    /\ \E d \in FormatDecls :
          /\ TypevarOperandOk(d.kinds, d.typevar_operand)
          /\ LET f == FormatRec(1, d.kinds, d.multiple_results,
                                d.typevar_operand)
             IN  /\ registry = Register(<<>>, Sig(d.multiple_results, d.kinds), f)
                 /\ all_formats = <<f>>
    /\ InitInst
    /\ InitDecl
    /\ lastOp = Op("init", NoErr, NoGroup)

NextInst ==
    \/ lastOp.op # "new_instruction" /\ NewInstructionGroup
    \/ lastOp.op # "new_instruction" /\ CloseInstructionGroup
    \/ /\ lastOp.op # "new_instruction"
       /\ \E ins \in InstIns, outs \in InstOuts : NewInstruction(ins, outs)

SpecInst == InitInstSpec /\ [][NextInst]_vars

(***************************************************************************)
(* SpecBind: one instruction with two value inputs has been defined; type  *)
(* arguments are bound to it, at once or one call after the other, and     *)
(* fully_bound() is asked.                                                 *)
(***************************************************************************)
MaxBindArgs == 2         \* type arguments given to one bind() call

BindFormat == FormatRec(1, <<"value", "value">>, FALSE, NoIndex)
BindIns == {<<Operand(a), Operand(b)>> : a \in InstTypes, b \in InstTypes}
BindOuts == SeqsUpTo({Operand(t) : t \in InstTypes}, 1)

\* The instructions that Instruction(...) constructs from these operands.
BindInsts ==
    {InstRec(BindFormat, io[1], io[2], VerifyPolymorphic(BindFormat, io[1], io[2])) :
        io \in {x \in BindIns \X BindOuts :
                   VerifyPolymorphic(BindFormat, x[1], x[2]).err = NoErr}}

BindArgs == SeqsUpTo(BindTypes, MaxBindArgs)

InitBind ==
    /\ InitSettings
    /\ registry = Register(<<>>, Sig(FALSE, BindFormat.kinds), BindFormat)
    /\ all_formats = <<BindFormat>>
    /\ ig_current = TheGroup
    /\ \E inst \in BindInsts : ig_instructions = <<inst>>
    /\ InitDecl
    /\ lastOp = Op("init", NoErr, NoGroup)

NextBind ==
    \/ \E args \in BindArgs : InstBind(args)
    \/ \E args \in BindArgs : BoundBind(args)
    \/ FullyBound

SpecBind == InitBind /\ [][NextBind]_vars

\* ---- Value types: scalar types are declared one after the other ----
MaxScalarDecls == 17     \* ScalarType(...) calls with a name not yet taken

\* The name of the next declaration: one that is taken, or the next new one.
NextTypeNames == type_registry \cup {Cardinality(type_registry) + 1}

NextTypes ==
    /\ Len(all_scalars) < MaxScalarDecls
    /\ \E name \in NextTypeNames : NewScalarType(name)

SpecTypes == Init /\ [][NextTypes]_vars

\* ---- Vector types: by() calls among the declarations of scalar types ----
MaxBases == 2            \* scalar types the vector types are made of

\* The lane counts asked for: none, powers of two and one that is not.
LaneCounts == {0, 2, 3, 4}

\* The name of the next scalar declaration: one that is taken (a vector's
\* name included), or the next new one.
NextScalarNames == type_registry \cup {Len(all_scalars) + 1}

NextVectors ==
    \/ /\ Len(all_scalars) < MaxBases
       /\ \E name \in NextScalarNames : NewScalarType(name)
    \/ \E b \in 1..MaxBases, lanes \in LaneCounts : By(b, lanes)

SpecVectors == Init /\ [][NextVectors]_vars

\* ---- Target ISAs: CPU modes and encodings are added, then finish() ----
MaxModes == 2            \* CPU modes of the ISA
MaxEncs == 3             \* encodings, over all CPU modes

\* A group with one BoolSetting, closed and laid out.
OneBoolGroup(g) ==
    Layout(g, [NewGroupRec EXCEPT !.settings = <<NewSettingRec("bool")>>])

InitIsaSpec ==
    /\ sg_current = NoGroup
    /\ grp = [g \in Groups |-> OneBoolGroup(g)]
    /\ pred_named = {}
    /\ InitFormats
    /\ InitInst
    /\ InitBound
    /\ InitTypes
    /\ InitXForms
    /\ isa = NewIsaRec(IsaGroup)
    /\ lastOp = Op("init", NoErr, NoGroup)

Building == lastOp.op # "finish"

\* The ISA predicates of encodings: none, a setting of the ISA's group, a
\* setting of the parent group, and the conjunction of the two.
IsaPs == {NoPred, <<IsaGroup, 1>>, <<ParentGroup, 1>>, BothSettings}

\* SpecIsa: the recipes and instruction predicates of the encodings vary.
NextIsa ==
    \/ Building /\ Len(isa.cpumodes) < MaxModes /\ NewCPUMode
    \/ /\ Building
       /\ TotalEncodings < MaxEncs
       /\ \E m \in 1..MaxModes, recipe \in Recipes, instp \in InstPs \cup {NoPred} :
             Enc(m, recipe, instp, NoPred)
    \/ Building /\ Finish

SpecIsa == InitIsaSpec /\ [][NextIsa]_vars

\* SpecIsaPredicates: the ISA predicates of the encodings vary.
NextIsaPredicates ==
    \/ Building /\ Len(isa.cpumodes) < MaxModes /\ NewCPUMode
    \/ /\ Building
       /\ TotalEncodings < MaxEncs
       /\ \E m \in 1..MaxModes, isap \in IsaPs : Enc(m, "r1", NoPred, isap)
    \/ Building /\ Finish

SpecIsaPredicates == InitIsaSpec /\ [][NextIsaPredicates]_vars

\* ---- Transformations: XForm(src, dst) and verify_legalize() ----
MaxStmts == 2

\* The statements of the XForm doctest.
DoctestStmts ==
    { Def(<<"c">>, <<VarArg("v")>>),                    \* c << iconst(v)
      Def(<<"a">>, <<VarArg("x"), VarArg("c")>>),       \* a << iadd(x, c)
      Def(<<"a">>, <<VarArg("x"), VarArg("v")>>) }      \* a << iadd_imm(x, v)

\* The statements patterns are written with: those of the doctest, and ones
\* with a repeated result, a nested Apply and a literal operand.
Stmts ==
    DoctestStmts \cup
    { Def(<<"c">>, <<VarArg("a")>>),                    \* c << ineg(a)
      Def(<<"a", "a">>, <<VarArg("x")>>),               \* (a, a) << isplit(x)
      Def(<<"a">>, <<ApplyArg(<<"x">>), VarArg("v")>>), \* a << iadd(ineg(x), v)
      Def(<<"a">>, <<VarArg("x"), ImmArg(FALSE)>>),     \* a << iadd_imm(x, 1)
      Def(<<>>, <<ImmArg(TRUE)>>) }                     \* ineg(1)

Rtls == SeqsUpTo(Stmts, MaxStmts)

NextXForm ==
    \/ /\ lastOp.op = "init"
       /\ \E src \in Rtls, dst \in Rtls : NewXForm(src, dst)
    \/ VerifyLegalize

SpecXForm == Init /\ [][NextXForm]_vars

\* Statements that read and define the same few variables: a read of a
\* result, a statement that reads its own result, a nested read and a bare
\* Apply.
UseStmts ==
    { Def(<<"c">>, <<VarArg("v")>>),                    \* c << iconst(v)
      Def(<<"a">>, <<VarArg("x"), VarArg("c")>>),       \* a << iadd(x, c)
      Def(<<"c">>, <<VarArg("a")>>),                    \* c << ineg(a)
      Def(<<"a">>, <<VarArg("a"), VarArg("x")>>),       \* a << iadd(a, x)
      Def(<<"v">>, <<ApplyArg(<<"c">>), VarArg("x")>>), \* v << iadd(ineg(c), x)
      Def(<<>>, <<VarArg("a")>>) }                      \* ineg(a)

NextXFormUses ==
    \/ /\ lastOp.op = "init"
       /\ \E src \in SeqsUpTo(UseStmts, MaxStmts),
             dst \in SeqsUpTo(UseStmts, MaxStmts) : NewXForm(src, dst)
    \/ VerifyLegalize

SpecXFormUses == Init /\ [][NextXFormUses]_vars

\* ---- Transformation groups: XFormGroup.legalize(src, dst) ----
MaxXForms == 2

\* Destination patterns of one statement, or none.
LegalizeDsts == {<<>>} \cup {<<s>> : s \in DoctestStmts}

NextLegalize ==
    /\ Len(xforms) < MaxXForms
    /\ \E src \in Stmts, dst \in LegalizeDsts : Legalize(src, dst)

SpecLegalize == Init /\ [][NextLegalize]_vars

\* ---- Transforms made one after another with the same variables ----
\* Source patterns: those of one statement or none, and the doctest's.
SequenceSrcs ==
    LegalizeDsts \cup
    { << Def(<<"c">>, <<VarArg("v")>>),
         Def(<<"a">>, <<VarArg("x"), VarArg("c")>>) >> }

NextXFormSequence ==
    \/ \E src \in SequenceSrcs, dst \in LegalizeDsts : NewXForm(src, dst)
    \/ /\ Len(xforms) < MaxXForms
       /\ \E src \in DoctestStmts, dst \in LegalizeDsts : Legalize(src, dst)

SpecXFormSequence == Init /\ [][NextXFormSequence]_vars

(***************************************************************************)
(* The properties examined.                                                *)
(***************************************************************************)

\* C1: at most one SettingGroup is open.  Constructing or opening a group
\* while a group is open fails, close() on a group that is not the open one
\* fails, and these failures leave the open group (and every group) as it
\* was; a construction or an open() that succeeds starts from no open group.
C1_SingleOpenGroup ==
    [][ /\ (lastOp'.op \in {"new_group", "open"} /\ sg_current # NoGroup)
              => /\ lastOp'.err = "already_open"
                 /\ sg_current' = sg_current
                 /\ grp' = grp
        /\ (lastOp'.op = "close" /\ sg_current # lastOp'.ret)
              => /\ lastOp'.err = "not_open"
                 /\ sg_current' = sg_current
                 /\ grp' = grp
        /\ (lastOp'.op \in {"new_group", "open"} /\ lastOp'.err = NoErr)
              => sg_current = NoGroup /\ sg_current' = lastOp'.ret
        /\ sg_current' \in Existing' \cup {NoGroup}
      ]_vars

\* C1, the case: with both groups constructed and one of them open, open()
\* of the other one has just failed.
C1_Witness ==
    /\ Existing = Groups
    /\ lastOp.op = "open"
    /\ lastOp.err = "already_open"
    /\ sg_current \in Groups
    /\ sg_current # lastOp.ret

C2_Settings == grp[LayoutGroup].settings
C2_NonBoolsBefore(i) ==
    Cardinality({j \in 1..(i - 1) : C2_Settings[j].kind # "bool"})
C2_BoolsBefore(i) ==
    Cardinality({j \in 1..(i - 1) : C2_Settings[j].kind = "bool"})

\* C2: once layout() has returned, the non-boolean settings have the byte
\* offsets 0, 1, 2, ... in declaration order, boolean_offset is the number of
\* non-boolean settings, and the N-th boolean setting (N = 0, 1, ...) has
\* predicate number N, byte_offset = boolean_offset + N // 8 and
\* bit_offset = N % 8.
C2_LayoutPlacement ==
    grp[LayoutGroup].boolean_offset # None =>
        /\ grp[LayoutGroup].boolean_offset =
              C2_NonBoolsBefore(Len(C2_Settings) + 1)
        /\ \A i \in 1..Len(C2_Settings) :
              IF C2_Settings[i].kind # "bool"
              THEN C2_Settings[i].byte_offset = C2_NonBoolsBefore(i)
              ELSE /\ <<LayoutGroup, i>> \in
                          DOMAIN grp[LayoutGroup].predicate_number
                   /\ grp[LayoutGroup].predicate_number[<<LayoutGroup, i>>] =
                          C2_BoolsBefore(i)
                   /\ C2_Settings[i].byte_offset =
                          grp[LayoutGroup].boolean_offset
                              + C2_BoolsBefore(i) \div 8
                   /\ C2_Settings[i].bit_offset = C2_BoolsBefore(i) % 8

\* C2, the case: a laid-out group with a non-boolean setting declared after
\* a boolean one, and a ninth boolean setting placed in the second byte.
C2_Witness ==
    /\ grp[LayoutGroup].boolean_offset # None
    /\ \E i, j \in 1..Len(C2_Settings) :
          /\ i < j
          /\ C2_Settings[i].kind = "bool"
          /\ C2_Settings[j].kind # "bool"
          /\ C2_Settings[j].byte_offset = 0

\* C2, the case of a second byte of booleans.
C2_WitnessSecondByte ==
    /\ grp[LayoutGroup].boolean_offset # None
    /\ \E i \in 1..Len(C2_Settings) :
          /\ C2_Settings[i].kind = "bool"
          /\ C2_Settings[i].byte_offset = grp[LayoutGroup].boolean_offset + 1
          /\ C2_Settings[i].bit_offset = 0

\* ceil(n / 8), as the least number of bytes that hold n bits.
C3_CeilDiv8(n) == CHOOSE b \in 0..n : 8 * b >= n /\ (b = 0 \/ 8 * (b - 1) < n)
C3_Bools(r) == Cardinality({i \in 1..Len(r.settings) : r.settings[i].kind = "bool"})

\* C3: when layout() returns, settings_size = boolean_offset + ceil(B / 8)
\* with B the number of boolean settings (named predicates not counted);
\* number_predicate() leaves settings_size alone and byte_size() never
\* shrinks.
C3_SettingsSize ==
    [][ /\ (lastOp'.op \in {"close", "layout"} /\ lastOp'.err = NoErr)
              => grp'[LayoutGroup].settings_size =
                    grp'[LayoutGroup].boolean_offset
                        + C3_CeilDiv8(C3_Bools(grp'[LayoutGroup]))
        /\ (lastOp'.op = "number_predicate"
                /\ grp[LayoutGroup].boolean_offset # None)
              => /\ grp'[LayoutGroup].settings_size =
                        grp[LayoutGroup].settings_size
                 /\ grp'[LayoutGroup].settings_size =
                        grp'[LayoutGroup].boolean_offset
                            + C3_CeilDiv8(C3_Bools(grp'[LayoutGroup]))
                 /\ ByteSize(LayoutGroup)' >= ByteSize(LayoutGroup)
      ]_vars

\* C3, the case: eight boolean settings fill one byte, and a predicate
\* numbered after layout() has made byte_size() exceed settings_size.
C3_Witness ==
    /\ grp[LayoutGroup].boolean_offset # None
    /\ lastOp.op = "number_predicate"
    /\ C3_Bools(grp[LayoutGroup]) = 8
    /\ grp[LayoutGroup].named_predicates # <<>>
    /\ ByteSize(LayoutGroup) > grp[LayoutGroup].settings_size

\* C4: number_predicate is idempotent.  After any call number_predicate(p),
\* a second call returns the same number and changes nothing; and a call for
\* a predicate that already has a number changes neither the table nor
\* byte_size().
C4_NumberPredicateIdempotent ==
    [][ \A p \in Objects :
          LET before == grp[LayoutGroup].predicate_number
              after == grp'[LayoutGroup].predicate_number
          IN  (/\ lastOp'.op = "number_predicate"
               /\ after = NumberPredicateTable(before, p)
               /\ lastOp'.ret = NumberPredicateRet(before, p))
              =>
                /\ NumberPredicateRet(after, p) = lastOp'.ret
                /\ NumberPredicateTable(after, p) = after
                /\ after[p] = lastOp'.ret
                /\ p \in DOMAIN before => after = before /\ grp' = grp
                /\ \A q \in DOMAIN before : after[q] = before[q]
      ]_vars

\* C4, the case: a call has just returned a number that is not the newest
\* one of the table, that is, the number of a predicate numbered before.
C4_Witness ==
    /\ lastOp.op = "number_predicate"
    /\ lastOp.ret + 1 < PredCount(grp[LayoutGroup].predicate_number)
    /\ grp[LayoutGroup].boolean_offset # None

\* C5: calling layout() on a group whose layout() has already run (close()
\* runs it first) is a fatal error, whatever the group holds.
C5_SecondLayoutFails ==
    [][ (lastOp'.op = "layout" /\ grp[LayoutGroup].boolean_offset # None)
            => lastOp'.err = "too_late" ]_vars

\* What the last Instruction(...) call was given, and the one format it met.
Inst_Called == lastOp.op = "new_instruction" /\ lastOp.err # "no_matching_format"
Inst_Verified == lastOp.err \in {NoErr, "no_group"}
Inst_ValueIns(ins) == {i \in 1..Len(ins) : ins[i].kind = "value"}
Inst_Secondary(ins, i, C) == ins[i].typ.ftv \notin {NoTv, C.name}

\* The case of C6: the format's typevar operand is typed exactly as a free
\* type variable, and some output is typed as another free type variable.
C6_Ctrl == lastOp.ins[all_formats[1].typevar_operand + 1].typ
C6_Case ==
    /\ Inst_Called
    /\ all_formats[1].typevar_operand # NoIndex
    /\ IsFreeTypevar(C6_Ctrl)
    /\ \E o \in 1..Len(lastOp.outs) :
          IsFreeTypevar(lastOp.outs[o].typ) /\ lastOp.outs[o].typ # C6_Ctrl

\* C6 as stated has the construction fail in that case (with the output
\* type variable error; an Instruction that is constructed refutes it
\* whatever the error would have been).
C6_FailsWithOutputMismatch ==
    C6_Case => lastOp.err # NoErr

\* Does the first result D serve as controlling variable?
C6_FirstResultServes ==
    LET ins == lastOp.ins
        outs == lastOp.outs
        D == outs[1].typ
    IN  /\ IsFreeTypevar(D)
        /\ \A o \in 1..Len(outs) : outs[o].typ.ftv \in {NoTv, D.name}
        /\ \A i \in Inst_ValueIns(ins) :
              Inst_Secondary(ins, i, D) => ins[i].typ.name = ins[i].typ.ftv
        /\ \A i, j \in Inst_ValueIns(ins) :
              (i # j /\ Inst_Secondary(ins, i, D) /\ Inst_Secondary(ins, j, D))
                  => ins[i].typ # ins[j].typ

\* C6, amended: in that case the construction never succeeds with C as the
\* controlling variable.  It fails, unless the first result is itself a free
\* type variable D that serves as controlling variable; then it succeeds with
\* ctrl_typevar = D, use_typevar_operand false and C among other_typevars.
C6_FallsBackToFirstResult ==
    C6_Case =>
        /\ Inst_Verified <=> C6_FirstResultServes
        /\ lastOp.err = NoErr =>
              /\ lastOp.ret.ctrl_typevar = lastOp.outs[1].typ
              /\ lastOp.ret.ctrl_typevar # C6_Ctrl
              /\ ~lastOp.ret.use_typevar_operand
              /\ \E k \in 1..Len(lastOp.ret.other_typevars) :
                    lastOp.ret.other_typevars[k] = C6_Ctrl.name
        /\ ~Inst_Verified =>
              lastOp.err \in {"output_not_derived", "first_result_not_free",
                              "must_be_derived_from_ctrl", "used_more_than_once"}

\* C6, the case: an instruction with its typevar operand typed C and its
\* first result typed D has been constructed.
C6_Witness ==
    /\ C6_Case
    /\ lastOp.err = NoErr
    /\ lastOp.ret.other_typevars = <<C6_Ctrl.name>>
    /\ lastOp.ret.ctrl_typevar.ftv # C6_Ctrl.name

\* The secondary variables of the value inputs before position i.
C7_SecondaryBefore(ins, i, C) ==
    Cardinality({j \in Inst_ValueIns(ins) : j < i /\ Inst_Secondary(ins, j, C)})

\* C7: every polymorphic Instruction that was constructed, with controlling
\* variable C: each value input's free type variable is absent, C, or a
\* secondary variable that is the operand's very type; no secondary variable
\* types two value inputs; every output's free type variable is absent or C;
\* other_typevars lists the secondary variables in input order, without C.
C7_PolymorphicInstruction ==
    \A n \in 1..Len(ig_instructions) :
        LET inst == ig_instructions[n]
            ins == inst.ins
            C == inst.ctrl_typevar
            other == inst.other_typevars
        IN  inst.is_polymorphic =>
              /\ IsFreeTypevar(C)
              /\ \A i \in Inst_ValueIns(ins) :
                    \/ ins[i].typ.ftv \in {NoTv, C.name}
                    \/ ins[i].typ.name = ins[i].typ.ftv
              /\ \A i, j \in Inst_ValueIns(ins) :
                    (i < j /\ Inst_Secondary(ins, i, C)
                           /\ Inst_Secondary(ins, j, C))
                        => ins[i].typ # ins[j].typ
              /\ \A o \in 1..Len(inst.outs) :
                    inst.outs[o].typ.ftv \in {NoTv, C.name}
              /\ Len(other) =
                    Cardinality({i \in Inst_ValueIns(ins) :
                                    Inst_Secondary(ins, i, C)})
              /\ \A i \in Inst_ValueIns(ins) :
                    Inst_Secondary(ins, i, C) =>
                        other[C7_SecondaryBefore(ins, i, C) + 1] = ins[i].typ.ftv
              /\ \A k \in 1..Len(other) : other[k] # C.name

\* C7, the case: an instruction with two secondary variables and a result
\* typed by the controlling one has been constructed.
C7_Witness ==
    \E n \in 1..Len(ig_instructions) :
        /\ ig_instructions[n].is_polymorphic
        /\ Len(ig_instructions[n].other_typevars) = 2
        /\ Len(ig_instructions[n].outs) > 0

\* Some value input or some output carries a free type variable.
C8_CarriesTypevar ==
    \/ \E i \in Inst_ValueIns(lastOp.ins) : lastOp.ins[i].typ.ftv # NoTv
    \/ \E o \in 1..Len(lastOp.outs) : lastOp.outs[o].typ.ftv # NoTv

\* The value inputs and the outputs, at least one of them, are all typed TV.
C8_AllTyped(TV) ==
    /\ \A i \in Inst_ValueIns(lastOp.ins) : lastOp.ins[i].typ = TV
    /\ \A o \in 1..Len(lastOp.outs) : lastOp.outs[o].typ = TV
    /\ Inst_ValueIns(lastOp.ins) # {} \/ Len(lastOp.outs) > 0

\* C8: an Instruction whose value inputs and outputs are all typed as one
\* free type variable TV passes the verification and is polymorphic with
\* ctrl_typevar = TV and no other_typevars; and an Instruction is polymorphic
\* exactly when a value input or an output carries a free type variable
\* (one that carries none is never rejected by the verification).
C8_Polymorphic ==
    Inst_Called =>
        /\ \A TV \in {t \in TypeVars : IsFreeTypevar(t)} :
              C8_AllTyped(TV) =>
                  /\ Inst_Verified
                  /\ lastOp.err = NoErr =>
                        /\ lastOp.ret.is_polymorphic
                        /\ lastOp.ret.ctrl_typevar = TV
                        /\ lastOp.ret.other_typevars = <<>>
        /\ lastOp.err = NoErr => (lastOp.ret.is_polymorphic <=> C8_CarriesTypevar)
        /\ ~C8_CarriesTypevar => Inst_Verified

\* C8, the case: one input and one output, both typed TV.
C8_Witness ==
    /\ Inst_Called
    /\ lastOp.err = NoErr
    /\ Len(lastOp.ins) = 1
    /\ Len(lastOp.outs) = 1
    /\ IsFreeTypevar(lastOp.ins[1].typ)
    /\ C8_AllTyped(lastOp.ins[1].typ)
    /\ lastOp.ret.ctrl_typevar = lastOp.outs[1].typ

\* The registry key of a format.
C9_Key(f) == <<f.multiple_results>> \o f.kinds

\* The registry and all_formats hold the same formats, one per key.
C9_SameFormats(reg, all) ==
    /\ Cardinality(DOMAIN reg) = Len(all)
    /\ \A n \in 1..Len(all) :
          C9_Key(all[n]) \in DOMAIN reg /\ reg[C9_Key(all[n])] = all[n]
    /\ \A m, n \in 1..Len(all) : m # n => C9_Key(all[m]) # C9_Key(all[n])
    /\ \A k \in DOMAIN reg : C9_Key(reg[k]) = k

\* C9: an InstructionFormat(...) whose key is already registered fails, and
\* the registry (still mapping the key to the first format) and all_formats
\* are as before; a construction that succeeds adds its format to both under
\* a key that was free; so the two always hold the same formats, one per
\* key.
C9_DuplicateSignature ==
    [][ lastOp'.op = "new_format" =>
          /\ \A d \in FormatDecls :
                (/\ Sig(d.multiple_results, d.kinds) \in DOMAIN registry
                 /\ NewFormat(d.kinds, d.multiple_results, d.typevar_operand))
                => /\ lastOp'.err # NoErr
                   /\ registry' = registry
                   /\ all_formats' = all_formats
          /\ lastOp'.err = "duplicate_signature" =>
                registry' = registry /\ all_formats' = all_formats
          /\ lastOp'.err = NoErr =>
                /\ C9_Key(lastOp'.ret) \notin DOMAIN registry
                /\ all_formats' = Append(all_formats, lastOp'.ret)
                /\ \A k \in DOMAIN registry : registry'[k] = registry[k]
          /\ C9_SameFormats(registry, all_formats)
          /\ C9_SameFormats(registry', all_formats')
      ]_vars

\* C9, the case: with a format registered, a second one with the same key
\* and another typevar_operand has just been refused.
C9_Witness ==
    /\ lastOp.op = "new_format"
    /\ lastOp.err = "duplicate_signature"
    /\ Len(all_formats) = 1
    /\ Len(all_formats[1].kinds) = 2
    /\ all_formats[1].typevar_operand = 1

\* C10: lookup(ins, outs) looks up the key made of the flag "more than one
\* output, or one output of kind variable_args" and the kinds of ins in
\* order; it returns the format registered under that key, fails with the
\* no-matching-format error exactly when there is none, and leaves the
\* registry as it was.
C10_Lookup ==
    [][ (lastOp'.op = "lookup" /\ lastOp.op # "lookup") =>
          LET ins == lastOp'.ins
              outs == lastOp'.outs
              flag == \/ Len(outs) > 1
                      \/ Len(outs) = 1 /\ outs[1].kind = "variable_args"
              key == <<flag>> \o [i \in 1..Len(ins) |-> ins[i].kind]
          IN  /\ registry' = registry
              /\ all_formats' = all_formats
              /\ (lastOp'.err = "no_matching_format") <=> (key \notin DOMAIN registry)
              /\ (lastOp'.err = NoErr) <=> (key \in DOMAIN registry)
              /\ key \in DOMAIN registry =>
                    /\ lastOp'.ret = registry[key]
                    /\ lastOp'.ret.multiple_results = flag
                    /\ lastOp'.ret.kinds = [i \in 1..Len(ins) |-> ins[i].kind]
      ]_vars

\* C10, the case: a single variable_args output has found a format declared
\* with multiple_results, while a format with the same kinds and without
\* multiple_results is registered too.
C10_Witness ==
    /\ lastOp.op = "lookup"
    /\ lastOp.err = NoErr
    /\ Len(lastOp.outs) = 1
    /\ lastOp.outs[1].kind = "variable_args"
    /\ lastOp.ret.multiple_results
    /\ Len(all_formats) = 2
    /\ all_formats[1].kinds = all_formats[2].kinds

\* C11: binding one call after the other composes.  bound.bind(*b), for a
\* bound made by binding a, gives what inst.bind(*a, *b) gives: the same
\* type arguments, or a failure exactly when that one fails, which is when
\* more than 1 + len(other_typevars) arguments would be bound; and when
\* inst.bind(*a) itself fails, inst.bind(*a, *b) fails for every b.
C11_BindComposes ==
    [][ /\ lastOp'.op = "bound_bind" =>
              LET inst == ig_instructions[1]
                  a == bound.typevars
                  b == lastOp'.args
                  direct == InstBindOutcome(inst, a \o b)
              IN  /\ (lastOp'.err = NoErr) <=> (direct.err = NoErr)
                  /\ (lastOp'.err # NoErr) <=>
                        (Len(a) + Len(b) > 1 + Len(inst.other_typevars))
                  /\ lastOp'.err = NoErr =>
                        /\ bound'.typevars = direct.obj.typevars
                        /\ bound'.typevars = a \o b
                        /\ bound'.inst = inst
                  /\ lastOp'.err # NoErr => bound' = bound
        /\ (lastOp'.op = "bind" /\ lastOp'.err # NoErr) =>
              \A b \in BindArgs :
                  InstBindOutcome(ig_instructions[1], lastOp'.args \o b).err # NoErr
      ]_vars

\* C11, the case: bind(t1).bind(t2) with two different types has given a
\* BoundInstruction with the type arguments (t1, t2).
C11_Witness ==
    /\ lastOp.op = "bound_bind"
    /\ lastOp.err = NoErr
    /\ Len(lastOp.args) = 1
    /\ Len(bound.typevars) = 2
    /\ bound.typevars[1] # bound.typevars[2]

\* C12: fully_bound() succeeds exactly when 1 + len(other_typevars) type
\* arguments are bound; with fewer (none included) it fails naming exactly
\* the type variables still missing, those of (ctrl_typevar,) +
\* other_typevars from the number of bound arguments on.
C12_FullyBoundNamesMissing ==
    lastOp.op = "fully_bound" =>
        LET inst == bound.inst
            n == Len(bound.typevars)
            all == <<inst.ctrl_typevar.name>> \o inst.other_typevars
        IN  /\ (lastOp.err = NoErr) <=> (n = Len(all))
            /\ lastOp.err # NoErr =>
                  /\ lastOp.err = "unbound_typevar"
                  /\ lastOp.ret = [k \in 1..(Len(all) - n) |-> all[n + k]]

\* ---- Patterns as written: the variables a pattern reads and defines ----

\* A sequence without its repetitions, each element where it first stands.
RECURSIVE FirstOccurrences(_)
FirstOccurrences(seq) ==
    IF seq = <<>> THEN <<>>
    ELSE LET front == FirstOccurrences(SubSeq(seq, 1, Len(seq) - 1))
             last == seq[Len(seq)]
         IN  IF \E i \in 1..Len(front) : front[i] = last THEN front
             ELSE Append(front, last)

\* The variables an argument list reads, left to right, a nested Apply's
\* arguments standing where the Apply stands.
RECURSIVE ReadsOfArgs(_, _)
ReadsOfArgs(args, i) ==
    IF i > Len(args) THEN <<>>
    ELSE (CASE args[i].kind = "var" -> <<args[i].name>>
            [] args[i].kind = "apply" -> args[i].args
            [] OTHER -> <<>>) \o ReadsOfArgs(args, i + 1)

\* The variables a pattern reads, statement by statement.
RECURSIVE ReadsOfRtl(_, _)
ReadsOfRtl(rtl, i) ==
    IF i > Len(rtl) THEN <<>>
    ELSE ReadsOfArgs(rtl[i].args, 1) \o ReadsOfRtl(rtl, i + 1)

\* The variables a pattern defines, statement by statement.
RECURSIVE DefsOfRtl(_, _)
DefsOfRtl(rtl, i) ==
    IF i > Len(rtl) THEN <<>>
    ELSE rtl[i].defs \o DefsOfRtl(rtl, i + 1)

Range(seq) == {seq[i] : i \in 1..Len(seq)}

\* The variables read but never defined in a pattern, by first occurrence.
FreeReads(rtl) ==
    LET defined == Range(DefsOfRtl(rtl, 1))
        Free(n) == n \notin defined
    IN  SelectSeq(FirstOccurrences(ReadsOfRtl(rtl, 1)), Free)

Constructed == lastOp.op = "new_xform" /\ lastOp.err = NoErr

\* C13: every constructed XForm has as inputs the variables read but never
\* defined in the source pattern, in order of first occurrence, and as defs
\* the variables defined in the source or destination pattern, in order of
\* first definition.
C13_InputsAndDefsInOrder ==
    Constructed =>
        /\ xform.inputs = FreeReads(xform.src)
        /\ xform.defs =
               FirstOccurrences(DefsOfRtl(xform.src, 1) \o DefsOfRtl(xform.dst, 1))

XFormErrs ==
    {"multiply_defined", "used_as_input_and_def", "value_arg_must_be_var",
     "extra_inputs_in_dst"}

\* The destination pattern of the last XForm(src, dst) reads a variable that
\* the source pattern neither reads nor defines and that the destination
\* pattern does not define.
DstReadsForeign ==
    /\ lastOp.op = "new_xform"
    /\ \E n \in Range(ReadsOfRtl(lastOp.dst, 1)) :
          /\ n \notin Range(ReadsOfRtl(lastOp.src, 1))
          /\ n \notin Range(DefsOfRtl(lastOp.src, 1))
          /\ n \notin Range(DefsOfRtl(lastOp.dst, 1))

\* The source pattern of the last XForm(src, dst) is rewritten without error.
SrcAccepted == NewXFormOutcome(lastOp.src, <<>>).err = NoErr

\* C14 (as stated): XForm construction fails with the extra-inputs-in-dst
\* error whenever the destination pattern reads a variable neither read nor
\* defined in the source pattern and not defined in the destination.  Read
\* in the claim's favour: only for source patterns that are themselves
\* accepted.
C14_FailsWithExtraInputs ==
    DstReadsForeign /\ SrcAccepted => lastOp.err = "extra_inputs_in_dst"

\* C14 (amended): in that case construction always fails, with one of the
\* constructor's errors (the extra-inputs check is the last of them); and a
\* constructed XForm has no input that the source pattern does not read.
C14_ForeignReadFails ==
    /\ DstReadsForeign => lastOp.err \in XFormErrs
    /\ Constructed =>
          Range(xform.inputs) \subseteq Range(ReadsOfRtl(xform.src, 1))

\* The case has happened: a foreign read alone, reported as extra inputs.
C14_Witness ==
    /\ DstReadsForeign
    /\ lastOp.err = "extra_inputs_in_dst"
    /\ lastOp.src # <<>>

\* The variable n stands twice among the definitions of a pattern.
DefinedTwice(rtl, n) ==
    LET d == DefsOfRtl(rtl, 1)
    IN  \E i, j \in 1..Len(d) : i # j /\ d[i] = n /\ d[j] = n

\* A variable is defined twice in one half of the last XForm(src, dst).
SameHalfTwice ==
    \E n \in Range(DefsOfRtl(lastOp.src, 1) \o DefsOfRtl(lastOp.dst, 1)) :
        DefinedTwice(lastOp.src, n) \/ DefinedTwice(lastOp.dst, n)

\* C15 (as stated): a variable defined twice within the same half (by two
\* statements or twice in one statement's result list) makes XForm
\* construction fail with the multiply-defined error.
C15_FailsWithMultiplyDefined ==
    lastOp.op = "new_xform" /\ SameHalfTwice
        => lastOp.err = "multiply_defined"

\* C15 (amended): such a variable makes XForm construction fail, with the
\* multiply-defined error unless rewriting stopped at an earlier argument
\* (used as both input and def, value argument not a Var); that error is
\* raised for nothing else; and a variable defined once in each half is
\* accepted and carries both contexts.
C15_MultiplyDefined ==
    lastOp.op = "new_xform" =>
        /\ SameHalfTwice => lastOp.err # NoErr
        /\ SameHalfTwice /\ lastOp.err \notin {"used_as_input_and_def",
                                               "value_arg_must_be_var"}
               => lastOp.err = "multiply_defined"
        /\ lastOp.err = "multiply_defined" => SameHalfTwice
        /\ lastOp.err = NoErr =>
               \A n \in Range(DefsOfRtl(lastOp.src, 1))
                          \cap Range(DefsOfRtl(lastOp.dst, 1)) :
                   xform.symtab[n] = BitOr(SRCCTX, DSTCTX)

\* The case has happened: a variable defined once by the source pattern and
\* by two statements of the destination pattern, refused at the second.
C15_Witness ==
    /\ lastOp.op = "new_xform"
    /\ lastOp.err = "multiply_defined"
    /\ Len(lastOp.src) = 1
    /\ Len(lastOp.dst) = 2
    /\ \A k \in 1..2 : lastOp.dst[k].defs = lastOp.src[1].defs
    /\ Len(lastOp.src[1].defs) = 1

\* C16: verify_legalize() succeeds iff the source pattern has exactly one
\* statement and every variable that statement defines is defined in the
\* destination pattern too; with one source statement and such a variable
\* missing from the destination, it fails with the not-defined-in-dest error.
C16_VerifyLegalize ==
    lastOp.op = "verify_legalize" =>
        LET src == xform.src
            dstDefs == Range(DefsOfRtl(xform.dst, 1))
        IN  /\ lastOp.err = NoErr <=>
                  /\ Len(src) = 1
                  /\ Range(src[1].defs) \subseteq dstDefs
            /\ (Len(src) = 1 /\ ~(Range(src[1].defs) \subseteq dstDefs))
                   => lastOp.err = "not_defined_in_dest"
            /\ Len(src) # 1 => lastOp.err = "needs_single_instruction"

\* The case has happened: the single source statement defines a variable,
\* the destination pattern defines another one only, and verification has
\* failed.
C16_Witness ==
    /\ lastOp.op = "verify_legalize"
    /\ lastOp.err = "not_defined_in_dest"
    /\ Len(xform.src) = 1
    /\ DefsOfRtl(xform.dst, 1) # <<>>

\* The rule XForm(src, dst) is constructed and passes verify_legalize().
RuleSucceeds(src, dst) ==
    LET r == NewXFormOutcome(src, dst)
    IN  r.err = NoErr /\ VerifyLegalizeErr(r.obj) = NoErr

\* C17: every legalize(src, dst) call whose XForm construction and
\* verify_legalize succeed appends that rule at the end of the group's
\* xforms, and every failing call leaves the list as it was; so the list
\* holds exactly the rules that succeeded, in call order.
C17_LegalizeAppendsInOrder ==
    [][ lastOp'.op = "legalize" =>
          LET src == lastOp'.src
              dst == lastOp'.dst
          IN  /\ lastOp'.err = NoErr <=> RuleSucceeds(src, dst)
              /\ lastOp'.err = NoErr =>
                    /\ Len(xforms') = Len(xforms) + 1
                    /\ SubSeq(xforms', 1, Len(xforms)) = xforms
                    /\ xforms'[Len(xforms')].src = src
                    /\ xforms'[Len(xforms')].dst = dst
              /\ lastOp'.err # NoErr => xforms' = xforms
      ]_vars

\* The case has happened: after one rule was added, a call whose XForm is
\* constructed but fails verification has left the list alone.
C17_Witness ==
    /\ lastOp.op = "legalize"
    /\ lastOp.err = "not_defined_in_dest"
    /\ Len(xforms) = 1

Finished == lastOp.op = "finish"

\* The recipes and the instruction predicates of the encodings, CPU mode
\* after CPU mode and encoding after encoding.
RecipesInOrder ==
    LET encs == AllEncodings(isa.cpumodes, 1)
    IN  [i \in 1..Len(encs) |-> encs[i].recipe]
InstPsInOrder ==
    LET encs == AllEncodings(isa.cpumodes, 1)
        Set(p) == p # NoPred
    IN  SelectSeq([i \in 1..Len(encs) |-> encs[i].instp], Set)

\* C18: finish() numbers recipes, and separately the instruction predicates
\* that are not None, by first encounter over the CPU modes in order and
\* each mode's encodings in order, from 0 on: all_recipes and all_instps
\* list them in that order and the i-th of each list has number i.
C18_NumberedByFirstEncounter ==
    Finished =>
        /\ isa.all_recipes = FirstOccurrences(RecipesInOrder)
        /\ isa.all_instps = FirstOccurrences(InstPsInOrder)
        /\ \A i \in 1..Len(isa.all_recipes) :
              isa.recipe_number[isa.all_recipes[i]] = i - 1
        /\ \A i \in 1..Len(isa.all_instps) :
              isa.instp_number[isa.all_instps[i]] = i - 1

\* The case has happened: two CPU modes with three encodings, a recipe used
\* twice, an encoding without instruction predicate, and both lists in the
\* order of encounter rather than of name.
C18_Witness ==
    /\ Finished
    /\ Len(isa.cpumodes) = 2
    /\ Len(isa.cpumodes[1]) = 1
    /\ Len(isa.cpumodes[2]) = 2
    /\ isa.cpumodes[1][1].instp = NoPred
    /\ isa.all_recipes = <<"r2", "r1">>
    /\ isa.all_instps = << <<"instp", 2>>, <<"instp", 1>> >>

\* C19: after finish(), the ISA predicate of every encoding that has one,
\* and every setting that predicate is composed of (settings of the parent
\* group included), has a number in the predicate table of the ISA's
\* settings group.
C19_IsaPredicatesNumbered ==
    Finished =>
        LET encs == AllEncodings(isa.cpumodes, 1)
            numbered == DOMAIN grp[isa.settings].predicate_number
        IN  \A i \in 1..Len(encs) :
               encs[i].isap # NoPred =>
                   /\ encs[i].isap \in numbered
                   /\ PredicateLeafs(encs[i].isap) \subseteq numbered

\* The scalar types declared successfully, in the order of declaration:
\* all_scalars without the entries that failed declarations left behind.
DeclaredScalars(scalars) ==
    LET Ok(t) == t.number <= 15
    IN  SelectSeq(scalars, Ok)

\* C20: the k-th ScalarType declared successfully has number k, so the
\* numbers of the declared scalars are distinct and within 1..15; and with
\* fifteen declared, a further declaration fails.
C20_ScalarNumbers ==
    [][ lastOp'.op = "new_scalar" =>
          LET before == DeclaredScalars(all_scalars)
              after == DeclaredScalars(all_scalars')
          IN  /\ lastOp'.err = NoErr =>
                    /\ lastOp'.number = Len(before) + 1
                    /\ after = Append(before, [name |-> lastOp'.type,
                                               number |-> lastOp'.number])
              /\ lastOp'.err # NoErr => after = before
              /\ \A k \in 1..Len(after) : after[k].number = k
              /\ \A k \in 1..Len(after) : after[k].number \in 1..15
              /\ Len(before) >= 15 => lastOp'.err # NoErr
      ]_vars

\* The case has happened: with fifteen scalar types declared, the sixteenth
\* declaration has failed.
C20_Witness ==
    /\ lastOp.op = "new_scalar"
    /\ lastOp.err = "too_many_scalar_types"
    /\ lastOp.number = 16
    /\ Len(DeclaredScalars(all_scalars)) = 15

\* C21: by() is memoized per base and lane count.  A call for a pair that
\* has a vector type returns that very instance and constructs nothing; a
\* call that returns one for the first time has constructed it and
\* registered its name, once; no call of by() and no other declaration
\* changes or drops the instance of a pair; and different pairs have
\* different instances.
C21_ByMemoized ==
    [][ /\ \A k \in DOMAIN vectors :
              k \in DOMAIN vectors' /\ vectors'[k] = vectors[k]
        /\ \A k1, k2 \in DOMAIN vectors' :
              k1 # k2 => vectors'[k1].name # vectors'[k2].name
        /\ lastOp'.op = "by" =>
              LET key == <<lastOp'.base, lastOp'.lanes>>
              IN  /\ key \in DOMAIN vectors =>
                        /\ lastOp'.err = NoErr
                        /\ lastOp'.ret = vectors[key]
                        /\ ~lastOp'.made
                        /\ type_registry' = type_registry
                  /\ (lastOp'.err = NoErr /\ key \notin DOMAIN vectors) =>
                        /\ lastOp'.made
                        /\ vectors'[key] = lastOp'.ret
                        /\ lastOp'.ret.base = key[1]
                        /\ lastOp'.ret.lanes = key[2]
                        /\ lastOp'.ret.name \notin type_registry
                        /\ type_registry' =
                               type_registry \cup {lastOp'.ret.name}
      ]_vars

\* The case has happened: a by() call has returned the vector type made
\* earlier, with a scalar type declared and another vector type made since.
C21_Witness ==
    /\ lastOp.op = "by"
    /\ lastOp.err = NoErr
    /\ ~lastOp.made
    /\ lastOp.base = 1
    /\ Len(all_scalars) = 2
    /\ <<2, lastOp.lanes>> \in DOMAIN vectors
    /\ Cardinality(DOMAIN vectors) >= 3

\* 2 to the e-th.
RECURSIVE Pow2(_)
Pow2(e) == IF e = 0 THEN 1 ELSE 2 * Pow2(e - 1)

\* C22: every vector type that base.by(lanes) returns has the number
\* 16 * log2(lanes) + base.number: lanes is 2 to some e, and the number is
\* 16 * e plus the number of the base.
C22_VectorNumber ==
    (lastOp.op = "by" /\ lastOp.err = NoErr) =>
        \E e \in 0..lastOp.lanes :
            /\ Pow2(e) = lastOp.lanes
            /\ lastOp.ret.number = 16 * e + all_scalars[lastOp.base].number

\* layout() has run for the group g.
LaidOut(g) == grp[g].exists /\ grp[g].settings_size # None

\* C23: once layout() has run for a group, no open(), Setting construction
\* or close() makes the group's settings list grow or leaves it holding a
\* setting without a byte offset.
C23_NoSettingsAfterLayout ==
    [][ \A g \in Groups :
           LaidOut(g) =>
               /\ Len(grp'[g].settings) = Len(grp[g].settings)
               /\ \A i \in 1..Len(grp'[g].settings) :
                     grp'[g].settings[i].byte_offset # None
      ]_vars

\* The numbers of a predicate table are 0..n-1, one for each predicate.
OneToOne(pn) ==
    /\ {pn[p] : p \in DOMAIN pn} = 0..(PredCount(pn) - 1)
    /\ \A p, q \in DOMAIN pn : p # q => pn[p] # pn[q]

\* The place of a numbered object in the order of the claim: a boolean
\* setting of the group, a named predicate, or another predicate.
C24_Rank(g, p) ==
    IF p[1] = g THEN 0
    ELSE IF \E i \in 1..Len(grp[g].named_predicates) :
                grp[g].named_predicates[i] = p
    THEN 1 ELSE 2

\* Boolean settings hold the lowest numbers, named predicates follow, other
\* predicates come last.
C24_Ordered(g) ==
    LET pn == grp[g].predicate_number
    IN  \A p, q \in DOMAIN pn :
           C24_Rank(g, p) < C24_Rank(g, q) => pn[p] < pn[q]

\* C24 (as stated, without the part on numbers that never change): in every
\* reachable state the predicate table maps its n predicates one-to-one onto
\* 0..n-1; boolean settings hold the lowest numbers, named predicates
\* follow, later-admitted predicates come last.
C24_TableOrderedAlways ==
    /\ OneToOne(grp[LayoutGroup].predicate_number)
    /\ C24_Ordered(LayoutGroup)

\* C24 (amended): the table always maps its n predicates one-to-one onto
\* 0..n-1 and no step changes or drops a number; and a layout() that
\* succeeds leaves the boolean settings with the lowest numbers and the
\* named predicates after them, so that what is admitted later comes last.
C24_TableStable ==
    [][ LET before == grp[LayoutGroup].predicate_number
            after == grp'[LayoutGroup].predicate_number
        IN  /\ OneToOne(after)
            /\ \A p \in DOMAIN before :
                  p \in DOMAIN after /\ after[p] = before[p]
            /\ (lastOp'.op \in {"close", "layout"} /\ lastOp'.err = NoErr)
                   => C24_Ordered(LayoutGroup)'
      ]_vars

\* The case has happened: a laid-out group with a boolean setting, a named
\* predicate and a predicate admitted by number_predicate() afterwards.
C24_Witness ==
    /\ lastOp.op = "number_predicate"
    /\ grp[LayoutGroup].settings_size # None
    /\ Len(grp[LayoutGroup].named_predicates) = 1
    /\ \E i \in 1..Len(grp[LayoutGroup].settings) :
          <<LayoutGroup, i>> \in DOMAIN grp[LayoutGroup].predicate_number
    /\ \E p \in DOMAIN grp[LayoutGroup].predicate_number :
          C24_Rank(LayoutGroup, p) = 2

\* ---- Uses and definitions of a variable in the two patterns ----

\* The variables the i-th statement of a pattern reads.
ReadsOfStmt(rtl, i) == Range(ReadsOfArgs(rtl[i].args, 1))

\* A statement of the pattern reads n and a later statement of the same
\* pattern defines it.
ReadBeforeDefined(rtl, n) ==
    \E i \in 1..Len(rtl), j \in 1..Len(rtl) :
        /\ i < j
        /\ n \in ReadsOfStmt(rtl, i)
        /\ n \in Range(rtl[j].defs)

\* The pattern `here` reads n without defining it, and the pattern `there`
\* defines it.
ReadWhereNotDefined(here, there, n) ==
    /\ n \in Range(ReadsOfRtl(here, 1))
    /\ n \notin Range(DefsOfRtl(here, 1))
    /\ n \in Range(DefsOfRtl(there, 1))

UsedBeforeOrOutsideDefinition(src, dst) ==
    \E n \in Range(ReadsOfRtl(src, 1)) \cup Range(ReadsOfRtl(dst, 1)) :
        \/ ReadBeforeDefined(src, n)
        \/ ReadBeforeDefined(dst, n)
        \/ ReadWhereNotDefined(src, dst, n)
        \/ ReadWhereNotDefined(dst, src, n)

\* C25: in every constructed XForm each local variable is in exactly one of
\* inputs and defs; every input has an empty def-context and is defined in
\* neither pattern, every def has a non-empty def-context.  A variable read
\* in a statement that stands before the one defining it in the same pattern,
\* or read in a pattern that does not define it while the other pattern does,
\* makes the construction fail.
C25_InputsOrDefs ==
    /\ Constructed =>
          LET ins == Range(xform.inputs)
              defs == Range(xform.defs)
              written == Range(DefsOfRtl(xform.src, 1))
                             \cup Range(DefsOfRtl(xform.dst, 1))
              read == Range(ReadsOfRtl(xform.src, 1))
                          \cup Range(ReadsOfRtl(xform.dst, 1))
          IN  /\ ins \cap defs = {}
              /\ ins \cup defs = DOMAIN xform.symtab
              /\ DOMAIN xform.symtab = read \cup written
              /\ Cardinality(ins) = Len(xform.inputs)
              /\ Cardinality(defs) = Len(xform.defs)
              /\ \A n \in ins : xform.symtab[n] = 0 /\ n \notin written
              /\ \A n \in defs : xform.symtab[n] # 0 /\ n \in written
    /\ lastOp.op = "new_xform"
           /\ UsedBeforeOrOutsideDefinition(lastOp.src, lastOp.dst)
       => lastOp.err # NoErr

\* An XForm is constructed whose patterns both define a variable and read it
\* afterwards, next to an input, one statement reading its own result.
C25_Witness ==
    /\ Constructed
    /\ xform.inputs # <<>>
    /\ \E n \in Range(xform.defs) :
          /\ xform.symtab[n] = BitOr(SRCCTX, DSTCTX)
          /\ n \in Range(ReadsOfRtl(xform.src, 1))
          /\ n \in Range(ReadsOfRtl(xform.dst, 1))
    /\ \E i \in 1..Len(xform.src) :
          Range(xform.src[i].defs) \cap ReadsOfStmt(xform.src, i) # {}

\* ---- Transforms made one after another ----

\* The transform xf was made from the patterns of the call now made.
SameCall(xf) == xf.src = lastOp'.src /\ xf.dst = lastOp'.dst

SameOutcome(xf, other) ==
    /\ xf.inputs = other.inputs
    /\ xf.defs = other.defs
    /\ xf.symtab = other.symtab

====
